---- MODULE Spec2Model ----
(***************************************************************************)
(* Model of the connection-resilience and price-state core of arb-bot:     *)
(*   - ReconnectionStrategy      (src/src/websocket/reconnect.rs)          *)
(*   - WebSocketManager          (src/src/websocket/manager.rs)            *)
(*   - PriceState / PriceData    (src/src/state/price.rs, types.rs)        *)
(*   - the broadcast fan-out of the manager (tokio::sync::broadcast)       *)
(*   - BinanceParser / CoinbaseParser    (src/src/exchanges/*/parser.rs)   *)
(*   - BinanceExchange / CoinbaseExchange (src/src/exchanges/*/exchange.rs)*)
(*                                                                         *)
(* Durations of the reconnection policy are whole seconds.  Instants and   *)
(* durations of the price cache are integer nanoseconds (Duration / 2 is   *)
(* the truncating integer division of the nanosecond count).  A Decimal d  *)
(* is represented by the integer 10 * d (one decimal digit), which keeps   *)
(* (bid + ask) / 2 exact for whole-number bids and asks.  In the parsers a *)
(* Decimal is a mantissa with a scale, and a string that is taken apart   *)
(* is a sequence of one-character strings.                                 *)
(***************************************************************************)
EXTENDS Integers, Sequences, FiniteSets, TLC

VARIABLES
    \* ---- WebSocketManager -------------------------------------------
    reconnect_strategy, \* the manager's ReconnectionStrategy (policy + counter)
    pc,                 \* position of the task executing run()
    err,                \* error returned by the last failed connect_and_run
    result,             \* value returned by run(): NoResult, Ok or Err(e)
    delay,              \* Duration handed to tokio::time::sleep by the last retry
    lastFrame,          \* last inbound frame taken from read.next() on this connection
    outbox,             \* frames written with write.send on this connection
    broadcast,          \* values passed to message_tx.send, in order
    attempts,           \* number of connect_async calls made so far
    events,             \* number of select! arms taken so far (frames + ticks)
    framesRead,         \* number of frames read.next() yielded on this connection
    shouldRetryCalls,   \* number of should_retry() calls made by run
    nextDelayCalls,     \* number of next_delay() calls made by run
    failedInARow,       \* failed cycles since the last connect_async that succeeded
    established,        \* TRUE iff the current/last cycle got past connect_async
    sockets,            \* connections (numbered by attempt) that are open
    \* ---- PriceState --------------------------------------------------
    prices,             \* the HashMap behind the RwLock: key -> PriceData or None
    max_age,            \* PriceState.max_age
    now,                \* the monotonic clock read by Instant::now()/elapsed()
    tpc,                \* position of every task inside its current PriceState call
    tloc,               \* locals of every task's current call
    tret,               \* value returned by every task's last finished call
    calls,              \* number of PriceState calls started so far
    \* ---- a caller driving a ReconnectionStrategy directly ------------
    startRetry,         \* current_retry when the caller took the strategy over
    resetCalls,         \* number of reset() calls made by the caller
    lastCall,           \* the caller's last call and the value it returned
    \* ---- the broadcast channel between the manager and its subscribers --
    chan,               \* the tokio broadcast channel created by WebSocketManager::new
    rx,                 \* every subscriber's Receiver and what its last recv returned
    sent,               \* values the read loop passed to message_tx.send, in order
    lastParse,          \* what the parser returned for the last text frame
    \* ---- a caller of the exchange parsers ---------------------------
    origin,             \* how the message handed to parse was made
    parseInput,         \* the message handed to parse
    parseRet,           \* what parse returned for it
    \* ---- an exchange adapter, its owner and its tasks ---------------
    exchange,           \* "binance" or "coinbase"
    latest_prices,      \* the adapter's map from pair to latest Price
    ws_manager_handle,  \* the subscription whose task handle is stored
    feeds,              \* per subscription: its tasks, socket and channel
    caller,             \* the owner's call: position, counters, result
    \* ---- the manager run together with its channel -----------------
    sentOn,             \* for every value in sent, the connect_async call it was read after
    \* ---- the RateLimiter of the Coinbase REST client and its callers --
    last_request,       \* RateLimiter.last_request: None or Some(instant)
    request_count,      \* RateLimiter.request_count
    rlClock,            \* the clock read by Instant::now(), in milliseconds
    rlTask,             \* per caller: position in wait_if_needed and its locals
    admissions          \* the calls of wait_if_needed that returned, in order: the
                        \* instant of the return and whether the call assigned
                        \* last_request, which starts a window

mgrVars == <<reconnect_strategy, pc, err, result, delay, lastFrame, outbox,
             broadcast, attempts, events, framesRead, shouldRetryCalls,
             nextDelayCalls, established, sockets, failedInARow>>
psVars == <<prices, max_age, now, tpc, tloc, tret, calls>>
stVars == <<startRetry, resetCalls, lastCall>>
bcVars == <<chan, rx, sent, lastParse>>
paVars == <<origin, parseInput, parseRet>>
adVars == <<exchange, latest_prices, ws_manager_handle, feeds, caller>>
rcVars == <<sentOn>>
rlVars == <<last_request, request_count, rlClock, rlTask, admissions>>
yVars == <<rcVars, rlVars>>
xVars == <<bcVars, paVars, adVars, yVars>>
vars == <<reconnect_strategy, pc, err, result, delay, lastFrame, outbox,
          broadcast, attempts, events, framesRead, shouldRetryCalls,
          nextDelayCalls, established, sockets, failedInARow, prices, max_age, now, tpc, tloc, tret, calls,
          startRetry, resetCalls, lastCall, chan, rx, sent, lastParse,
          origin, parseInput, parseRet, exchange, latest_prices,
          ws_manager_handle, feeds, caller, sentOn, last_request,
          request_count, rlClock, rlTask, admissions>>

----------------------------------------------------------------------------
(* Bounds of the model *)

MaxRetriesBound == 2     \* finite max_retries range over 0..MaxRetriesBound
MaxInitialDelay == 2     \* initial_delay ranges over 1..MaxInitialDelay seconds
MaxDelayBound == 3       \* max_delay ranges over 1..MaxDelayBound seconds
MaxEvents == 3           \* select! arms taken during one run
MaxAttempts == MaxRetriesBound + 3   \* connect_async calls during one run
MaxCalls == 3            \* PriceState calls made by the two tasks together
MaxAgeBound == 2         \* max_age is MaxAgeBound - 1 or MaxAgeBound nanoseconds
MaxTime == MaxAgeBound   \* the clock runs over 0..MaxTime nanoseconds
NumWriters == 3          \* writer tasks of the concurrent-writes scenario
MaxDelayCalls == 32      \* next_delay calls made by a direct caller
MaxResetCalls == 2       \* reset calls made by a direct caller

----------------------------------------------------------------------------
(* Option and Result values *)

None == [some |-> FALSE]
Some(x) == [some |-> TRUE, val |-> x]
Ok(x) == [ok |-> TRUE, val |-> x]
Err(e) == [ok |-> FALSE, err |-> e]
NoResult == [pending |-> TRUE]
Unit == "()"

Min(a, b) == IF a <= b THEN a ELSE b

RECURSIVE powi(_, _)
powi(base, exponent) == IF exponent = 0 THEN 1 ELSE base * powi(base, exponent - 1)

----------------------------------------------------------------------------
(* ReconnectionStrategy *)

ExponentCap == 30

\* A u32 is kept as the 32-bit two's complement integer with the same bits:
\* n < 2^31 is n itself and 2^32 - k is -k, so that u32::MAX is -1.
U32Max == 0 - 1

\* a < b on u32.
u32_lt(a, b) == IF (a < 0) = (b < 0) THEN a < b ELSE b < 0

\* u32::min
u32_min(a, b) == IF u32_lt(a, b) THEN a ELSE b

\* a + 1 overflows u32.
u32_inc_overflows(a) == a = U32Max

\* a + 1 on u32 where the build does not check overflow.
u32_wrapping_inc(a) == IF a = U32Max THEN 0 ELSE a + 1

\* Seconds are f64 in next_delay.  A product above MaxSeconds is kept as
\* MaxSeconds; no max_delay of the model is above it, so that the minimum
\* with max_delay is the one the code computes.
MaxSeconds == 2147483647

f64_mul(a, b) == IF a # 0 /\ b > MaxSeconds \div a THEN MaxSeconds ELSE a * b

new(maxRetries, initialDelay, maxDelay) ==
    [max_retries |-> maxRetries,
     current_retry |-> 0,
     initial_delay |-> initialDelay,
     max_delay |-> maxDelay,
     multiplier |-> 2]

\* Variant of should_retry that ignores max_retries.
should_retry_Always(s) == TRUE

should_retry(s) ==
    IF s.max_retries.some
    THEN u32_lt(s.current_retry, s.max_retries.val) ELSE TRUE

\* The Duration returned by next_delay.
next_delay_value(s) ==
    LET exponent == u32_min(s.current_retry, ExponentCap)
        multiplier_power == powi(s.multiplier, exponent)
        delay_secs == f64_mul(s.initial_delay, multiplier_power)
    IN  Min(delay_secs, s.max_delay)

\* The strategy after next_delay: the counter is incremented (and wraps at
\* u32::MAX where the build does not check overflow).
next_delay_state(s) ==
    [s EXCEPT !.current_retry = u32_wrapping_inc(s.current_retry)]

\* self.current_retry += 1 overflows.
next_delay_overflows(s) == u32_inc_overflows(s.current_retry)

\* Variant of reset that restarts the counter at 1.
reset_ToOne(s) == [s EXCEPT !.current_retry = 1]

\* Variant of reset that leaves the counter alone.
reset_NoOp(s) == s

reset(s) == [s EXCEPT !.current_retry = 0]

----------------------------------------------------------------------------
(* Inbound frames and the parser *)

\* Text payloads: whether the text is JSON, and the string fields the parser
\* looks up in it (None when the field is missing or not a string).
Tick1 == [json |-> TRUE, pair |-> Some("SOL/USDC"), bid |-> Some(1000), ask |-> Some(1010)]
Tick2 == [json |-> TRUE, pair |-> Some("SOL/USDC"), bid |-> Some(1020), ask |-> Some(1030)]
NoPair == [json |-> TRUE, pair |-> None, bid |-> Some(1000), ask |-> Some(1010)]
NotJson == [json |-> FALSE, pair |-> None, bid |-> None, ask |-> None]
TextPayloads == {Tick1, Tick2, NoPair, NotJson}

PingPayloads == {<<>>, <<7>>}

Text(t) == [kind |-> "Text", data |-> t]
Ping(d) == [kind |-> "Ping", data |-> d]
Pong(d) == [kind |-> "Pong", data |-> d]
Binary == [kind |-> "Binary", data |-> <<>>]
Close == [kind |-> "Close", data |-> <<>>]
ReadError == [kind |-> "Error", data |-> <<>>]
EndOfStream == [kind |-> "None", data |-> <<>>]
NoFrame == [kind |-> "NoFrame", data |-> <<>>]

\* What read.next() can yield.
Frames == {Text(t) : t \in TextPayloads} \cup {Ping(d) : d \in PingPayloads}
          \cup {Pong(<<>>), Binary, Close, ReadError, EndOfStream}

\* MessageParser::parse as implemented by the manager tests' MockParser.
parse(message) ==
    IF ~message.json THEN Err("Json")
    ELSE IF ~message.pair.some THEN Err("ParseError: Missing 'pair' field")
    ELSE IF ~message.bid.some THEN Err("ParseError: Invalid 'bid' field")
    ELSE IF ~message.ask.some THEN Err("ParseError: Invalid 'ask' field")
    ELSE Ok([pair |-> message.pair.val, bid |-> message.bid.val,
             ask |-> message.ask.val, last |-> message.bid.val])

NetworkError(m) == "NetworkError: " \o m

----------------------------------------------------------------------------
(* WebSocketManager::run and connect_and_run *)

MgrInit ==
    /\ \E mr \in {None} \cup {Some(n) : n \in 0..MaxRetriesBound},
          id \in 1..MaxInitialDelay, md \in 1..MaxDelayBound :
          reconnect_strategy = new(mr, id, md)
    /\ pc = "connecting"
    /\ err = "none"
    /\ result = NoResult
    /\ delay = 0
    /\ lastFrame = NoFrame
    /\ outbox = <<>>
    /\ broadcast = <<>>
    /\ attempts = 0
    /\ events = 0
    /\ framesRead = 0
    /\ shouldRetryCalls = 0
    /\ nextDelayCalls = 0
    /\ established = FALSE
    /\ failedInARow = 0
    /\ sockets = {}

\* connect_async fails: connect_and_run returns Err before anything else.
ConnectFail ==
    /\ pc = "connecting"
    /\ attempts < MaxAttempts
    /\ attempts' = attempts + 1
    /\ established' = FALSE
    /\ failedInARow' = failedInARow + 1
    /\ err' = NetworkError("Failed to connect")
    /\ pc' = "failed"
    /\ lastFrame' = NoFrame
    /\ framesRead' = 0
    /\ outbox' = <<>>
    /\ UNCHANGED <<reconnect_strategy, result, delay, broadcast, events,
                   shouldRetryCalls, nextDelayCalls, sockets>>

\* Variant of ConnectOk that leaves the strategy's counter where it is.
ConnectOk_KeepsCount ==
    /\ pc = "connecting"
    /\ attempts < MaxAttempts
    /\ attempts' = attempts + 1
    /\ established' = TRUE
    /\ failedInARow' = 0
    /\ pc' = "connected"
    /\ sockets' = sockets \cup {attempts + 1}
    /\ lastFrame' = NoFrame
    /\ framesRead' = 0
    /\ outbox' = <<>>
    /\ UNCHANGED <<reconnect_strategy, err, result, delay, broadcast, events,
                   shouldRetryCalls, nextDelayCalls>>

\* connect_async succeeds: split the stream, reset the strategy, start the loop.
ConnectOk ==
    /\ pc = "connecting"
    /\ attempts < MaxAttempts
    /\ attempts' = attempts + 1
    /\ established' = TRUE
    /\ failedInARow' = 0
    /\ reconnect_strategy' = reset(reconnect_strategy)
    /\ pc' = "connected"
    /\ sockets' = sockets \cup {attempts + 1}
    /\ lastFrame' = NoFrame
    /\ framesRead' = 0
    /\ outbox' = <<>>
    /\ UNCHANGED <<err, result, delay, broadcast, events, shouldRetryCalls,
                   nextDelayCalls>>

\* Variant of HandleText that puts the newest price first.
HandleText_Prepend(text) ==
    LET parsed == parse(text) IN
    /\ broadcast' = IF parsed.ok THEN <<parsed.val>> \o broadcast ELSE broadcast
    /\ UNCHANGED <<pc, err, result, outbox>>

\* Variant of HandleText that propagates a parse error out of the loop.
HandleText_FailOnParseError(text) ==
    LET parsed == parse(text) IN
    IF parsed.ok
    THEN /\ broadcast' = Append(broadcast, parsed.val)
         /\ UNCHANGED <<pc, err, result, outbox>>
    ELSE /\ err' = parsed.err
         /\ pc' = "failed"
         /\ UNCHANGED <<result, outbox, broadcast>>

\* Some(Ok(Message::Text(text))): parse, broadcast on success, go on either way.
HandleText(text) ==
    LET parsed == parse(text) IN
    /\ broadcast' = IF parsed.ok THEN Append(broadcast, parsed.val) ELSE broadcast
    /\ UNCHANGED <<pc, err, result, outbox>>

\* Some(Ok(Message::Ping(data))): the arm starts write.send(Message::Pong(data))
\* and awaits it; nothing is written until that await returns.
StartPong ==
    /\ pc' = "ponging"
    /\ UNCHANGED <<err, result, outbox, broadcast>>

\* Variant of HandlePing that answers with an empty pong.
HandlePing_EmptyPong(data, sendOk) ==
    IF sendOk
    THEN /\ outbox' = Append(outbox, Pong(<<>>))
         /\ pc' = "connected"
         /\ UNCHANGED <<err, result, broadcast>>
    ELSE /\ err' = NetworkError("Failed to send pong")
         /\ pc' = "failed"
         /\ UNCHANGED <<result, outbox, broadcast>>

\* write.send(Message::Pong(data)).await returns: Pong(data) was written and
\* the loop goes on, or the send failed, which ends the cycle.
HandlePing(data, sendOk) ==
    IF sendOk
    THEN /\ outbox' = Append(outbox, Pong(data))
         /\ pc' = "connected"
         /\ UNCHANGED <<err, result, broadcast>>
    ELSE /\ err' = NetworkError("Failed to send pong")
         /\ pc' = "failed"
         /\ UNCHANGED <<result, outbox, broadcast>>

\* Some(Ok(Message::Close(_))): connect_and_run returns Ok, so run returns Ok.
HandleClose ==
    /\ pc' = "returned"
    /\ result' = Ok(Unit)
    /\ UNCHANGED <<err, outbox, broadcast>>

\* Some(Err(e)): connect_and_run returns a NetworkError.
HandleReadError ==
    /\ err' = NetworkError("WebSocket error")
    /\ pc' = "failed"
    /\ UNCHANGED <<result, outbox, broadcast>>

\* Variant of HandleStreamEnd that treats end-of-stream as a failure.
HandleStreamEnd_AsError ==
    /\ err' = NetworkError("Stream ended")
    /\ pc' = "failed"
    /\ UNCHANGED <<result, outbox, broadcast>>

\* None: the stream ended; connect_and_run returns Ok, so run returns Ok.
HandleStreamEnd ==
    /\ pc' = "returned"
    /\ result' = Ok(Unit)
    /\ UNCHANGED <<err, outbox, broadcast>>

\* Binary, Pong and other frames are ignored.
HandleOther ==
    UNCHANGED <<pc, err, result, outbox, broadcast>>

\* Variant of release that keeps the connection open.
release_Leak(socks, id) == socks

\* Dropping the two halves of ws_stream closes connection id.
release(socks, id) == socks \ {id}

\* write and read are locals of connect_and_run: when the step leaves the
\* function (pc is no longer in the message loop) they are dropped.
InLoop == {"connected", "ponging", "pinging"}

ScopeEnds ==
    sockets' = IF pc' \in InLoop THEN sockets ELSE release(sockets, attempts)

\* connect_and_run returned Err in this step: one more cycle failed.
CycleEnds ==
    failedInARow' = IF pc' = "failed" THEN failedInARow + 1 ELSE failedInARow

\* The read.next() arm of select!, up to its first await or to its end.
ReadFrame ==
    /\ pc = "connected"
    /\ events < MaxEvents
    /\ \E f \in Frames :
          /\ lastFrame' = f
          /\ CASE f.kind = "Text" -> HandleText(f.data)
               [] f.kind = "Ping" -> StartPong
               [] f.kind = "Close" -> HandleClose
               [] f.kind = "Error" -> HandleReadError
               [] f.kind = "None" -> HandleStreamEnd
               [] OTHER -> HandleOther
    /\ events' = events + 1
    /\ framesRead' = framesRead + 1
    /\ ScopeEnds
    /\ CycleEnds
    /\ UNCHANGED <<reconnect_strategy, delay, attempts, shouldRetryCalls,
                   nextDelayCalls, established>>

\* The read.next() arm of select! after a ping frame: the send of the pong
\* returns.
SendPong ==
    /\ pc = "ponging"
    /\ \E sendOk \in BOOLEAN : HandlePing(lastFrame.data, sendOk)
    /\ ScopeEnds
    /\ CycleEnds
    /\ UNCHANGED <<reconnect_strategy, delay, lastFrame, attempts, events,
                   framesRead, shouldRetryCalls, nextDelayCalls, established>>

\* The ping_interval.tick() arm of select! is taken: the arm starts
\* write.send(Message::Ping(vec![])) and awaits it.
HealthCheckTick ==
    /\ pc = "connected"
    /\ events < MaxEvents
    /\ events' = events + 1
    /\ pc' = "pinging"
    /\ UNCHANGED <<reconnect_strategy, err, result, delay, lastFrame, outbox,
                   broadcast, attempts, framesRead, shouldRetryCalls,
                   nextDelayCalls, established, failedInARow, sockets>>

\* The tick arm's write.send(Message::Ping(vec![])).await returns: the ping
\* was written and the loop goes on, or the send failed, which ends the cycle.
SendPing ==
    /\ pc = "pinging"
    /\ \E sendOk \in BOOLEAN :
          IF sendOk
          THEN /\ outbox' = Append(outbox, Ping(<<>>))
               /\ pc' = "connected"
               /\ UNCHANGED err
          ELSE /\ err' = NetworkError("Failed to send ping")
               /\ pc' = "failed"
               /\ UNCHANGED outbox
    /\ ScopeEnds
    /\ CycleEnds
    /\ UNCHANGED <<reconnect_strategy, result, delay, lastFrame, broadcast,
                   attempts, events, framesRead, shouldRetryCalls,
                   nextDelayCalls, established>>

\* Variant of GiveUp that sleeps and retries although the budget is spent.
GiveUp_RetriesAnyway ==
    /\ pc = "failed"
    /\ ~should_retry(reconnect_strategy)
    /\ shouldRetryCalls' = shouldRetryCalls + 1
    /\ delay' = next_delay_value(reconnect_strategy)
    /\ pc' = "sleeping"
    /\ UNCHANGED <<reconnect_strategy, err, result, lastFrame, outbox, broadcast,
                   attempts, events, framesRead, nextDelayCalls, failedInARow, established,
                   sockets>>

\* run, Err arm, should_retry() is false: return Err(e).
GiveUp ==
    /\ pc = "failed"
    /\ ~should_retry(reconnect_strategy)
    /\ shouldRetryCalls' = shouldRetryCalls + 1
    /\ result' = Err(err)
    /\ pc' = "returned"
    /\ UNCHANGED <<reconnect_strategy, err, delay, lastFrame, outbox, broadcast,
                   attempts, events, framesRead, nextDelayCalls, failedInARow, established,
                   sockets>>

\* Variant of Retry that calls next_delay() twice in one failed cycle.
Retry_DelayTwice ==
    /\ pc = "failed"
    /\ should_retry(reconnect_strategy)
    /\ shouldRetryCalls' = shouldRetryCalls + 1
    /\ delay' = next_delay_value(next_delay_state(reconnect_strategy))
    /\ reconnect_strategy' = next_delay_state(next_delay_state(reconnect_strategy))
    /\ nextDelayCalls' = nextDelayCalls + 2
    /\ pc' = "sleeping"
    /\ UNCHANGED <<err, result, lastFrame, outbox, broadcast, attempts, events,
                   framesRead, failedInARow, established, sockets>>

\* run, Err arm, should_retry() is true: next_delay() and start sleeping.
Retry ==
    /\ pc = "failed"
    /\ should_retry(reconnect_strategy)
    /\ shouldRetryCalls' = shouldRetryCalls + 1
    /\ delay' = next_delay_value(reconnect_strategy)
    /\ reconnect_strategy' = next_delay_state(reconnect_strategy)
    /\ nextDelayCalls' = nextDelayCalls + 1
    /\ pc' = "sleeping"
    /\ UNCHANGED <<err, result, lastFrame, outbox, broadcast, attempts, events,
                   framesRead, failedInARow, established, sockets>>

\* tokio::time::sleep(delay) completes; the loop goes round.
Wake ==
    /\ pc = "sleeping"
    /\ pc' = "connecting"
    /\ UNCHANGED <<reconnect_strategy, err, result, delay, lastFrame, outbox,
                   broadcast, attempts, events, framesRead, shouldRetryCalls,
                   nextDelayCalls, failedInARow, established, sockets>>

----------------------------------------------------------------------------
(* PriceData and Price *)

ExchangeIds == {"Binance", "Coinbase"}
Pairs == {"SOL/USDC", "BTC/USDT"}
Keys == ExchangeIds \X Pairs

\* Two tasks share the PriceState and call it in any order and interleaving;
\* their calls are about one pair.
Tasks == {1, 2}
WatchedPairs == {"SOL/USDC"}
WatchedKeys == ExchangeIds \X WatchedPairs

\* Inputs of update_price: bid, ask (Decimal 100, 101, 102, 103 in tenths)
\* and sequence number.
Updates == {<<1000, 1010, 2>>, <<1020, 1030, 1>>}
Price(pair, bid, ask) == [pair |-> pair, bid |-> bid, ask |-> ask, last |-> bid]

Abs(x) == IF x < 0 THEN -x ELSE x

\* Price::mid_price.  bid and ask are Decimals with one fractional digit,
\* kept in tenths; their mean has up to two and is kept in hundredths, and
\* so is a difference of mid-prices.
mid_price(price) == ((price.bid + price.ask) * 10) \div 2

\* PriceData::new at clock reading t.
PriceData_new(price, sequence, t) ==
    [price |-> price, timestamp |-> t, sequence |-> sequence]

\* PriceData::age at clock reading t.
age(data, t) == t - data.timestamp

\* Variant of is_stale that also rejects an age equal to max_age.
is_stale_Inclusive(data, maxAge, t) == age(data, t) >= maxAge

\* PriceData::is_stale at clock reading t.
is_stale(data, maxAge, t) == age(data, t) > maxAge

----------------------------------------------------------------------------
(* PriceState.  Every section that holds the RwLock is one atomic step.    *)

\* Variants of insert: one keeps a stored record with a higher sequence, one
\* replaces the whole map by the new entry, one keeps the stored sequence.
insert_IfNewer(m, key, data) ==
    IF m[key].some /\ m[key].val.sequence > data.sequence
    THEN m
    ELSE [m EXCEPT ![key] = Some(data)]

insert_Clobber(m, key, data) ==
    [k \in Keys |-> IF k = key THEN Some(data) ELSE None]

insert_Merge(m, key, data) ==
    [m EXCEPT ![key] =
        IF m[key].some
        THEN Some([data EXCEPT !.sequence = m[key].val.sequence])
        ELSE Some(data)]

\* Variant of insert that stores the record for the pair on every exchange.
insert_EveryExchange(m, key, data) ==
    [k \in Keys |-> IF k[2] = key[2] THEN Some(data) ELSE m[k]]

\* HashMap::insert under the write lock.
insert(m, key, data) == [m EXCEPT ![key] = Some(data)]

\* HashMap::get(..).cloned() under the read lock.
get_price(m, key) == m[key]

\* self.prices.read().clone()
get_all_prices(m) == m

\* Variant of spread_of that keeps the sign of the difference.
spread_of_Signed(price1, price2, maxAge) ==
    LET time_diff == IF price1.timestamp > price2.timestamp
                     THEN price1.timestamp - price2.timestamp
                     ELSE price2.timestamp - price1.timestamp
        max_time_diff == maxAge \div 2
    IN  IF time_diff > max_time_diff
        THEN None
        ELSE Some(mid_price(price2.price) - mid_price(price1.price))

\* The tail of get_spread once both records are known to be fresh.
spread_of(price1, price2, maxAge) ==
    LET time_diff == IF price1.timestamp > price2.timestamp
                     THEN price1.timestamp - price2.timestamp
                     ELSE price2.timestamp - price1.timestamp
        max_time_diff == maxAge \div 2
    IN  IF time_diff > max_time_diff
        THEN None
        ELSE Some(Abs(mid_price(price2.price) - mid_price(price1.price)))

NoCall == [op |-> "none"]

\* PriceState::new(max_age), shared by the tasks in T.
PsInit(T) ==
    /\ prices = [k \in Keys |-> None]
    /\ max_age \in {MaxAgeBound - 1, MaxAgeBound}
    /\ now = 0
    /\ tpc = [t \in T |-> "idle"]
    /\ tloc = [t \in T |-> NoCall]
    /\ tret = [t \in T |-> NoResult]
    /\ calls = 0

\* HashMap keys that hold an entry; HashMap::len is their number.
present(m) == {k \in Keys : m[k].some}

\* The write lock is held across the steps of a remove_stale_prices sweep;
\* every other locked section is one step.
WriteLocked == \E t \in DOMAIN tpc : tpc[t] = "retain"

\* A task may start a call when it is not inside one: before its first call
\* ("idle") or after its last call has returned ("ret").
CanCall(t) == tpc[t] \in {"idle", "ret"} /\ calls < MaxCalls

Returns(t, locals, value) ==
    /\ tpc' = [tpc EXCEPT ![t] = "ret"]
    /\ tloc' = [tloc EXCEPT ![t] = locals]
    /\ tret' = [tret EXCEPT ![t] = value]

\* The clock advances.
Tick ==
    /\ now < MaxTime
    /\ now' = now + 1
    /\ UNCHANGED <<prices, max_age, tpc, tloc, tret, calls>>

\* update_price, first half: build the key and PriceData::new(price, sequence).
UpdatePriceCall(t, key, u) ==
    /\ LET price == Price(key[2], u[1], u[2])
           sequence == u[3]
           price_data == PriceData_new(price, sequence, now)
       IN  tloc' = [tloc EXCEPT ![t] =
               [op |-> "update_price", key |-> key, price |-> price,
                sequence |-> sequence, start |-> now,
                price_data |-> price_data]]
    /\ tpc' = [tpc EXCEPT ![t] = "update_insert"]
    /\ calls' = calls + 1
    /\ UNCHANGED <<prices, max_age, now, tret>>

UpdatePriceNew(t) ==
    /\ CanCall(t)
    /\ \E key \in WatchedKeys, u \in Updates : UpdatePriceCall(t, key, u)

\* update_price, second half: self.prices.write().insert(key, price_data).
UpdatePriceInsert(t) ==
    /\ tpc[t] = "update_insert"
    /\ ~WriteLocked
    /\ prices' = insert(prices, tloc[t].key, tloc[t].price_data)
    /\ Returns(t, tloc[t], Unit)
    /\ UNCHANGED <<max_age, now, calls>>

\* Variant of GetPrice that drops a stale entry instead of returning it.
GetPrice_Expiring(t) ==
    /\ CanCall(t)
    /\ ~WriteLocked
    /\ \E key \in WatchedKeys :
          LET found == get_price(prices, key)
              expired == found.some /\ is_stale(found.val, max_age, now)
          IN  /\ prices' = IF expired THEN [prices EXCEPT ![key] = None] ELSE prices
              /\ Returns(t, [op |-> "get_price", key |-> key, call |-> calls + 1],
                         IF expired THEN None ELSE found)
    /\ calls' = calls + 1
    /\ UNCHANGED <<max_age, now>>

\* get_price: one lookup under the read lock.
GetPrice(t) ==
    /\ CanCall(t)
    /\ ~WriteLocked
    /\ \E key \in WatchedKeys :
          Returns(t, [op |-> "get_price", key |-> key, call |-> calls + 1],
                  get_price(prices, key))
    /\ calls' = calls + 1
    /\ UNCHANGED <<prices, max_age, now>>

\* get_all_prices: one clone under the read lock.
GetAllPricesCall(t) ==
    /\ ~WriteLocked
    /\ Returns(t, [op |-> "get_all_prices", call |-> calls + 1],
               get_all_prices(prices))
    /\ calls' = calls + 1
    /\ UNCHANGED <<prices, max_age, now>>

GetAllPrices(t) == CanCall(t) /\ GetAllPricesCall(t)

\* get_spread returns value: to the caller of get_spread, or to
\* get_spread_percentage, whose ? returns None at once and which goes on
\* with Some(spread).
SpreadReturns(t, locals, value) ==
    IF locals.op = "get_spread_percentage" /\ value.some
    THEN /\ tpc' = [tpc EXCEPT ![t] = "pct_price1"]
         /\ tloc' = [tloc EXCEPT ![t] = [locals EXCEPT !.spread = value]]
         /\ UNCHANGED tret
    ELSE Returns(t, locals, value)

\* get_spread, entered as op (directly or from get_spread_percentage):
\* let price1 = self.get_price(ex1, pair)?
GetSpreadEnter(t, op) ==
    /\ CanCall(t)
    /\ ~WriteLocked
    /\ \E ex1 \in ExchangeIds, ex2 \in ExchangeIds, pair \in WatchedPairs :
          LET price1 == get_price(prices, <<ex1, pair>>)
              locals == [op |-> op, ex1 |-> ex1, ex2 |-> ex2,
                         pair |-> pair, start |-> now, price1 |-> price1,
                         price2 |-> None, spread |-> None, again |-> None]
          IN  IF price1.some
              THEN /\ tpc' = [tpc EXCEPT ![t] = "spread_price2"]
                   /\ tloc' = [tloc EXCEPT ![t] = locals]
                   /\ UNCHANGED tret
              ELSE SpreadReturns(t, locals, None)
    /\ calls' = calls + 1
    /\ UNCHANGED <<prices, max_age, now>>

GetSpreadPrice1(t) == GetSpreadEnter(t, "get_spread")

\* get_spread: let price2 = self.get_price(ex2, pair)?
GetSpreadPrice2(t) ==
    /\ tpc[t] = "spread_price2"
    /\ ~WriteLocked
    /\ LET price2 == get_price(prices, <<tloc[t].ex2, tloc[t].pair>>)
           locals == [tloc[t] EXCEPT !.price2 = price2]
       IN  IF price2.some
           THEN /\ tpc' = [tpc EXCEPT ![t] = "spread_stale1"]
                /\ tloc' = [tloc EXCEPT ![t] = locals]
                /\ UNCHANGED tret
           ELSE SpreadReturns(t, locals, None)
    /\ UNCHANGED <<prices, max_age, now, calls>>

\* get_spread: price1.is_stale(self.max_age), the left operand of ||.
GetSpreadStale1(t) ==
    /\ tpc[t] = "spread_stale1"
    /\ IF is_stale(tloc[t].price1.val, max_age, now)
       THEN SpreadReturns(t, tloc[t], None)
       ELSE /\ tpc' = [tpc EXCEPT ![t] = "spread_stale2"]
            /\ UNCHANGED <<tloc, tret>>
    /\ UNCHANGED <<prices, max_age, now, calls>>

\* get_spread: price2.is_stale(self.max_age), then the time difference and
\* the mid-price difference.
GetSpreadStale2(t) ==
    /\ tpc[t] = "spread_stale2"
    /\ IF is_stale(tloc[t].price2.val, max_age, now)
       THEN SpreadReturns(t, tloc[t], None)
       ELSE SpreadReturns(t, tloc[t],
                spread_of(tloc[t].price1.val, tloc[t].price2.val, max_age))
    /\ UNCHANGED <<prices, max_age, now, calls>>

\* Decimal division keeps 28 significant digits; the model keeps the
\* quotient of two Decimals in units of 1/QuotientScale, which is exact for
\* the quotes below.
QuotientScale == 10000

decimal_div(a, b) == (a * QuotientScale) \div b

\* Variant of spread_percentage_of that divides by the other mid-price.
spread_percentage_of_Mid2(spread, mid1, mid2) ==
    IF mid1 = 0 \/ mid2 = 0 THEN None ELSE Some(decimal_div(spread, mid2) * 100)

\* The tail of get_spread_percentage once spread and price1 are known
\* (mid2 is not an input of the code's expression).
spread_percentage_of(spread, mid1, mid2) ==
    IF mid1 = 0 THEN None ELSE Some(decimal_div(spread, mid1) * 100)

\* The full-interface scenario: one task feeds prices with update_price while
\* another one reads, sweeps and clears.  Quotes with mid-prices 100, 125, 0.
Feeds == {1}
Consumers == {2}

Quotes == {<<995, 1005, 1>>, <<1245, 1255, 2>>, <<0, 0, 3>>}

UpdatePriceQuote(t) ==
    /\ CanCall(t)
    /\ \E key \in WatchedKeys, u \in Quotes : UpdatePriceCall(t, key, u)

\* get_spread_percentage: let spread = self.get_spread(ex1, ex2, pair)?
GetSpreadPercentage(t) == GetSpreadEnter(t, "get_spread_percentage")

\* get_spread_percentage: let price1 = self.get_price(ex1, pair)?, then the
\* zero test and the division.
GetSpreadPercentagePrice1(t) ==
    /\ tpc[t] = "pct_price1"
    /\ ~WriteLocked
    /\ LET price1 == get_price(prices, <<tloc[t].ex1, tloc[t].pair>>)
           mid2 == IF tloc[t].price2.some
                   THEN mid_price(tloc[t].price2.val.price) ELSE 0
           locals == [tloc[t] EXCEPT !.again = price1]
       IN  IF price1.some
           THEN LET mid1 == mid_price(price1.val.price) IN
                Returns(t, locals,
                        spread_percentage_of(tloc[t].spread.val, mid1, mid2))
           ELSE Returns(t, locals, None)
    /\ UNCHANGED <<prices, max_age, now, calls>>

\* Variant of IsStaleGet that reports an absent entry as stale.
IsStaleGet_AbsentIsStale(t) ==
    /\ CanCall(t)
    /\ ~WriteLocked
    /\ \E key \in WatchedKeys :
          LET price_data == get_price(prices, key)
              locals == [op |-> "is_stale", key |-> key, start |-> now,
                         price_data |-> price_data, call |-> calls + 1]
          IN  IF price_data.some
              THEN /\ tpc' = [tpc EXCEPT ![t] = "stale_age"]
                   /\ tloc' = [tloc EXCEPT ![t] = locals]
                   /\ UNCHANGED tret
              ELSE Returns(t, locals, TRUE)
    /\ calls' = calls + 1
    /\ UNCHANGED <<prices, max_age, now>>

\* is_stale: if let Some(price_data) = self.get_price(exchange, pair),
\* else false.
IsStaleGet(t) ==
    /\ CanCall(t)
    /\ ~WriteLocked
    /\ \E key \in WatchedKeys :
          LET price_data == get_price(prices, key)
              locals == [op |-> "is_stale", key |-> key, start |-> now,
                         price_data |-> price_data, call |-> calls + 1]
          IN  IF price_data.some
              THEN /\ tpc' = [tpc EXCEPT ![t] = "stale_age"]
                   /\ tloc' = [tloc EXCEPT ![t] = locals]
                   /\ UNCHANGED tret
              ELSE Returns(t, locals, FALSE)
    /\ calls' = calls + 1
    /\ UNCHANGED <<prices, max_age, now>>

\* is_stale: price_data.is_stale(self.max_age), after the read lock is gone.
IsStaleAge(t) ==
    /\ tpc[t] = "stale_age"
    /\ Returns(t, tloc[t], is_stale(tloc[t].price_data.val, max_age, now))
    /\ UNCHANGED <<prices, max_age, now, calls>>

\* Variant of retain that also drops an entry whose age equals max_age.
retain_Inclusive(m, key, maxAge, t) ==
    IF age(m[key].val, t) < maxAge THEN m ELSE [m EXCEPT ![key] = None]

\* Variant of retain that drops the entries that are not stale.
retain_Inverted(m, key, maxAge, t) ==
    IF is_stale(m[key].val, maxAge, t) THEN m ELSE [m EXCEPT ![key] = None]

\* HashMap::retain visiting one entry with |_, data| !data.is_stale(max_age).
retain(m, key, maxAge, t) ==
    IF ~is_stale(m[key].val, maxAge, t) THEN m ELSE [m EXCEPT ![key] = None]

\* remove_stale_prices: take the write lock and record initial_count; with an
\* empty map retain visits nothing and the call returns 0.
RemoveStaleLock(t) ==
    /\ CanCall(t)
    /\ ~WriteLocked
    /\ LET keys == present(prices)
           locals == [op |-> "remove_stale_prices",
                      initial_count |-> Cardinality(keys),
                      keys |-> keys, todo |-> keys, call |-> calls + 1]
       IN  IF keys = {}
           THEN Returns(t, locals, locals.initial_count - Cardinality(present(prices)))
           ELSE /\ tpc' = [tpc EXCEPT ![t] = "retain"]
                /\ tloc' = [tloc EXCEPT ![t] = locals]
                /\ UNCHANGED tret
    /\ calls' = calls + 1
    /\ UNCHANGED <<prices, max_age, now>>

\* remove_stale_prices: retain visits the entries in the map's own order,
\* reading the clock for each; after the last one the call returns
\* initial_count - prices.len() and the lock is dropped.
RemoveStaleRetain(t) ==
    /\ tpc[t] = "retain"
    /\ \E key \in tloc[t].todo :
          LET todo == tloc[t].todo \ {key}
              locals == [tloc[t] EXCEPT !.todo = todo]
              kept == retain(prices, key, max_age, now)
          IN  /\ prices' = kept
              /\ IF todo = {}
                 THEN Returns(t, locals,
                              locals.initial_count - Cardinality(present(kept)))
                 ELSE /\ tloc' = [tloc EXCEPT ![t] = locals]
                      /\ UNCHANGED <<tpc, tret>>
    /\ UNCHANGED <<max_age, now, calls>>

\* HashMap::clear
clear(m) == [k \in Keys |-> None]

\* clear: self.prices.write().clear()
Clear(t) ==
    /\ CanCall(t)
    /\ ~WriteLocked
    /\ prices' = clear(prices)
    /\ Returns(t, [op |-> "clear", call |-> calls + 1], Unit)
    /\ calls' = calls + 1
    /\ UNCHANGED <<max_age, now>>

\* The concurrent-writes scenario: task 0 spawns the writers, every writer
\* calls update_price once on a key no other writer uses, and task 0 calls
\* get_all_prices after all writers have finished.
Writers == 1..NumWriters

WriterUpdatePriceNew(w) ==
    /\ tpc[w] = "idle"
    /\ \E key \in Keys, u \in Updates :
          /\ \A o \in Writers : tloc[o].op = "update_price" => tloc[o].key # key
          /\ UpdatePriceCall(w, key, u)

JoinedGetAllPrices ==
    /\ tpc[0] = "idle"
    /\ \A w \in Writers : tpc[w] = "ret"
    /\ GetAllPricesCall(0)

----------------------------------------------------------------------------
(* The broadcast channel (tokio::sync::broadcast) behind message_tx        *)
(*                                                                         *)
(* A channel is a ring of slots, each holding the position of the value it *)
(* keeps, and the position the next send will take.  A Receiver is the     *)
(* position it reads next.  Positions are kept unwrapped (u64 in the       *)
(* program; the model sends far fewer than 2^64 values).                   *)

MaxSends == 130          \* values the read loop hands to send in one run
MaxBacklog == 2          \* unread values of a subscriber that keeps up

\* broadcast::channel(100) in WebSocketManager::new.
BroadcastCapacity == 100

RECURSIVE PowerOfTwoFrom(_, _)
PowerOfTwoFrom(n, p) == IF p >= n THEN p ELSE PowerOfTwoFrom(n, 2 * p)

\* usize::next_power_of_two: the smallest power of two that is >= n.
next_power_of_two(n) == PowerOfTwoFrom(n, 1)

\* Variant of buffer_len that allocates exactly the requested slots.
buffer_len_Exact(capacity) == capacity

\* Slots broadcast::channel(capacity) allocates: the capacity rounded up
\* to a power of two.
buffer_len(capacity) == next_power_of_two(capacity)

NoPrice == [pair |-> "", bid |-> 0, ask |-> 0, last |-> 0]

\* broadcast::channel(capacity): empty slots, one Receiver at position 0.
\* Slot i starts as if it held position i - len, i.e. nothing readable.
channel(capacity) ==
    LET len == buffer_len(capacity) IN
    [buffer |-> [i \in 0..(len - 1) |-> [pos |-> i - len, val |-> NoPrice]],
     len |-> len,
     pos |-> 0,
     rx_cnt |-> 1,
     closed |-> FALSE]

\* Sender::send(value): Err(SendError(value)) and nothing stored when no
\* Receiver exists; otherwise the value overwrites the slot of the tail
\* position whatever any Receiver has read, and send returns the number of
\* Receivers.  oldestNext is the position of the Receiver furthest behind;
\* send does not look at it.
send(ch, value, oldestNext) ==
    IF ch.rx_cnt = 0
    THEN [chan |-> ch, ret |-> Err(value)]
    ELSE [chan |-> [ch EXCEPT !.buffer[ch.pos % ch.len] =
                                   [pos |-> ch.pos, val |-> value],
                              !.pos = ch.pos + 1],
          ret |-> Ok(ch.rx_cnt)]

\* What Receiver::recv resolves to.
RecvOk(v) == [kind |-> "Ok", price |-> v, skipped |-> 0]
Lagged(n) == [kind |-> "Lagged", price |-> NoPrice, skipped |-> n]
Closed == [kind |-> "Closed", price |-> NoPrice, skipped |-> 0]
Empty == [kind |-> "Empty", price |-> NoPrice, skipped |-> 0]
NoRecv == [kind |-> "NoRecv", price |-> NoPrice, skipped |-> 0]

\* Receiver::recv for a Receiver at position next: the value of that
\* position if its slot still holds it; nothing yet (the task waits) or
\* Closed if the position has not been sent; and if the slot was overwritten,
\* Lagged(missed) with the Receiver moved to the oldest position retained.
recv(ch, next) ==
    LET slot == ch.buffer[next % ch.len] IN
    IF slot.pos = next
    THEN [next |-> next + 1, ret |-> RecvOk(slot.val)]
    ELSE IF slot.pos + ch.len = next
    THEN [next |-> next, ret |-> IF ch.closed THEN Closed ELSE Empty]
    ELSE [next |-> ch.pos - ch.len, ret |-> Lagged(ch.pos - ch.len - next)]

\* Subscribers of the manager's channel: 1 is the Receiver returned by
\* WebSocketManager::new, 2 comes from resubscribe().  Subscriber 2 keeps
\* up with the feed: the runs studied are those in which it is never more
\* than MaxBacklog values behind.
Subscribers == {1, 2}
Prompt == {2}

NoReceiver == [alive |-> FALSE, next |-> 0, last |-> NoRecv]

\* The n-th ticker text the exchange sends.
Quote(n) == [json |-> TRUE, pair |-> Some("SOL/USDC"), bid |-> Some(n),
             ask |-> Some(n + 10)]

\* WebSocketManager::new: the channel and its first Receiver.
BcInit ==
    /\ chan = channel(BroadcastCapacity)
    /\ rx = [s \in Subscribers |->
               IF s = 1 THEN [alive |-> TRUE, next |-> 0, last |-> NoRecv]
               ELSE NoReceiver]
    /\ sent = <<>>
    /\ lastParse = NoResult

\* Position of the live Receiver that is furthest behind (the tail if none).
OldestNext ==
    LET live == {s \in Subscribers : rx[s].alive} IN
    IF live = {} THEN chan.pos
    ELSE CHOOSE n \in {rx[s].next : s \in live} :
            \A s \in live : n <= rx[s].next

\* Variant of TextArm that returns from the read loop when send fails, which
\* drops the Sender.
TextArm_PropagateSendError(text) ==
    LET p == parse(text) IN
    /\ lastParse' = p
    /\ IF p.ok
       THEN /\ chan' = IF send(chan, p.val, OldestNext).ret.ok
                       THEN send(chan, p.val, OldestNext).chan
                       ELSE [chan EXCEPT !.closed = TRUE]
            /\ sent' = Append(sent, p.val)
       ELSE UNCHANGED <<chan, sent>>
    /\ UNCHANGED rx

\* The Some(Ok(Message::Text(text))) arm of the read loop: parse, and on
\* success send; the result of send is dropped (let _ =).
TextArm(text) ==
    LET p == parse(text) IN
    /\ lastParse' = p
    /\ IF p.ok
       THEN /\ chan' = send(chan, p.val, OldestNext).chan
            /\ sent' = Append(sent, p.val)
       ELSE UNCHANGED <<chan, sent>>
    /\ UNCHANGED rx

\* A text frame arrives: the next ticker, or text that is not JSON.
ReadText ==
    /\ ~chan.closed
    /\ Len(sent) < MaxSends
    /\ \A s \in Prompt : rx[s].alive => chan.pos - rx[s].next < MaxBacklog
    /\ \E text \in {Quote(Len(sent) + 1), NotJson} : TextArm(text)

\* rx.recv().await completes for subscriber s (it stays pending while the
\* channel is empty and open).
Recv(s) ==
    /\ rx[s].alive
    /\ LET r == recv(chan, rx[s].next) IN
       /\ r.ret.kind # "Empty"
       /\ rx' = [rx EXCEPT ![s].next = r.next, ![s].last = r.ret]
    /\ UNCHANGED <<chan, sent, lastParse>>

\* receiver.resubscribe() on a live Receiver gives subscriber s a Receiver
\* that starts at the tail.
Resubscribe(s) ==
    /\ ~rx[s].alive
    /\ \E r \in Subscribers : rx[r].alive
    /\ chan' = [chan EXCEPT !.rx_cnt = chan.rx_cnt + 1]
    /\ rx' = [rx EXCEPT ![s] = [alive |-> TRUE, next |-> chan.pos, last |-> NoRecv]]
    /\ UNCHANGED <<sent, lastParse>>

\* Subscriber s drops its Receiver.
DropReceiver(s) ==
    /\ rx[s].alive
    /\ chan' = [chan EXCEPT !.rx_cnt = chan.rx_cnt - 1]
    /\ rx' = [rx EXCEPT ![s] = NoReceiver]
    /\ UNCHANGED <<sent, lastParse>>

\* Values of the channel variables while the channel is not studied.
BcIdle ==
    /\ chan = <<>>
    /\ rx = <<>>
    /\ sent = <<>>
    /\ lastParse = NoResult

----------------------------------------------------------------------------
(* The exchange parsers (BinanceParser, CoinbaseParser)                    *)
(*                                                                         *)
(* Strings the parsers take apart (symbols, product ids, pairs, numbers)   *)
(* are sequences of one-character strings; strings that are only compared  *)
(* are strings.  A JSON value is a record tagged with its type.  A Decimal  *)
(* is [m, e], the number m / 10^e; two Decimals are equal when they are    *)
(* the same number.                                                        *)

JNull == [t |-> "null"]
JStr(s) == [t |-> "string", s |-> s]
JNum(n) == [t |-> "number", n |-> n]
JArr(items) == [t |-> "array", items |-> items]
JObj(fields) == [t |-> "object", fields |-> fields]

\* What the exchange put on the wire: text that is JSON or is not.
JsonText(value) == [json |-> TRUE, value |-> value]
NotJsonText == [json |-> FALSE, value |-> JNull]

\* serde_json: value[key] is Null unless value is an object with that key.
Index(value, key) ==
    IF value.t = "object" /\ key \in DOMAIN value.fields
    THEN value.fields[key]
    ELSE JNull

\* serde_json: Value::as_str and Value::as_array.
as_str(value) == IF value.t = "string" THEN Some(value.s) ELSE None
as_array(value) == IF value.t = "array" THEN Some(value.items) ELSE None

\* Option<&str>::unwrap_or
unwrap_or(opt, default) == IF opt.some THEN opt.val ELSE default

DigitChars == <<"0", "1", "2", "3", "4", "5", "6", "7", "8", "9">>
LowerCase == <<"a", "b", "c", "d", "e", "f", "g", "h", "i", "j", "k", "l", "m",
               "n", "o", "p", "q", "r", "s", "t", "u", "v", "w", "x", "y", "z">>
UpperCase == <<"A", "B", "C", "D", "E", "F", "G", "H", "I", "J", "K", "L", "M",
               "N", "O", "P", "Q", "R", "S", "T", "U", "V", "W", "X", "Y", "Z">>

IsDigit(c) == \E i \in DOMAIN DigitChars : DigitChars[i] = c
DigitValue(c) == (CHOOSE i \in DOMAIN DigitChars : DigitChars[i] = c) - 1

\* str::to_uppercase on ASCII text.
to_uppercase(s) ==
    [i \in DOMAIN s |->
        IF \E k \in DOMAIN LowerCase : LowerCase[k] = s[i]
        THEN UpperCase[CHOOSE k \in DOMAIN LowerCase : LowerCase[k] = s[i]]
        ELSE s[i]]

\* str::replace(from, to) for a one-character pattern; to is a string of
\* zero or more characters.
RECURSIVE replace(_, _, _)
replace(s, from, to) ==
    IF s = <<>> THEN <<>>
    ELSE (IF Head(s) = from THEN to ELSE <<Head(s)>>) \o replace(Tail(s), from, to)

Decimal(m, e) == [m |-> m, e |-> e]
DecimalZero == <<"0">>

\* Decimal == Decimal
decimal_eq(a, b) == a.m * powi(10, b.e) = b.m * powi(10, a.e)

\* The error for a character that cannot stand where it does.
tail_invalid_digit(b) ==
    IF b = "." THEN Err("Invalid decimal: two decimal points")
    ELSE IF b = "_" THEN Err("Invalid decimal: must start lead with a number")
    ELSE Err("Invalid decimal: unknown character")

\* The scan after the optional sign, one character at a time: digits, at
\* most one decimal point, and "_" as a separator once a digit has been read.
\* point: the decimal point was read; has: a digit was read; m: the digits
\* read so far as a number; scale: the digits read after the point.
RECURSIVE scan_decimal(_, _, _, _, _, _)
scan_decimal(bytes, point, neg, has, m, scale) ==
    IF bytes = <<>>
    THEN IF has THEN Ok(Decimal(IF neg THEN 0 - m ELSE m, scale))
         ELSE Err("Invalid decimal: no digits found")
    ELSE LET b == Head(bytes) IN
         IF IsDigit(b)
         THEN scan_decimal(Tail(bytes), point, neg, TRUE, 10 * m + DigitValue(b),
                           IF point THEN scale + 1 ELSE scale)
         ELSE IF b = "." /\ ~point
         THEN scan_decimal(Tail(bytes), TRUE, neg, has, m, scale)
         ELSE IF b = "_" /\ has
         THEN scan_decimal(Tail(bytes), point, neg, TRUE, m, scale)
         ELSE tail_invalid_digit(b)

\* Decimal::from_str_exact for text of at most nine digits: an optional
\* sign, then the scan; the first character that cannot be read decides
\* the error.
from_str_exact(s) ==
    IF s = <<>> THEN Err("Invalid decimal: empty")
    ELSE IF Head(s) = "-" THEN scan_decimal(Tail(s), FALSE, TRUE, FALSE, 0, 0)
    ELSE IF Head(s) = "+" THEN scan_decimal(Tail(s), FALSE, FALSE, FALSE, 0, 0)
    ELSE scan_decimal(s, FALSE, FALSE, FALSE, 0, 0)

ParseError(m) == Err([kind |-> "ParseError", message |-> m])
ExchangeError(m) == Err([kind |-> "ExchangeError", message |-> m])

\* Price.timestamp: the instant a message names, or the time of parsing.
UtcNow == [from |-> "now", at |-> ""]
At(instant) == [from |-> "message", at |-> instant]

\* Timestamps the exchange writes; parse_from_rfc3339 accepts the first.
Rfc3339Time == "2025-10-30T12:00:00.000000Z"
NotATime == "12 o'clock"

\* DateTime::parse_from_rfc3339(s).ok()
parse_from_rfc3339(s) == IF s = Rfc3339Time THEN Some(s) ELSE None

\* Variant of symbol_to_pair that rounds the midpoint up.
symbol_to_pair_RoundsUp(symbol) ==
    IF Len(symbol) >= 6
    THEN LET mid == (Len(symbol) + 1) \div 2 IN
         SubSeq(symbol, 1, mid) \o <<"/">> \o SubSeq(symbol, mid + 1, Len(symbol))
    ELSE <<"U", "N", "K", "N", "O", "W", "N", "/">> \o symbol

\* BinanceParser::symbol_to_pair: split at the midpoint.
symbol_to_pair(symbol) ==
    IF Len(symbol) >= 6
    THEN LET mid == Len(symbol) \div 2 IN
         SubSeq(symbol, 1, mid) \o <<"/">> \o SubSeq(symbol, mid + 1, Len(symbol))
    ELSE <<"U", "N", "K", "N", "O", "W", "N", "/">> \o symbol

\* BinanceParser::pair_to_symbol
pair_to_symbol(pair) == to_uppercase(replace(pair, "/", <<>>))

\* CoinbaseParser::product_id_to_pair
product_id_to_pair(product_id) == replace(product_id, "-", <<"/">>)

\* CoinbaseParser::pair_to_product_id
pair_to_product_id(pair) == replace(pair, "/", <<"-">>)

\* The tail of both parsers: the four numbers, then the Price.
price_of(pair, last_str, bid_str, ask_str, volume_str, timestamp, names) ==
    LET last == from_str_exact(last_str)
        bid == from_str_exact(bid_str)
        ask == from_str_exact(ask_str)
        volume == from_str_exact(volume_str)
    IN  IF ~last.ok THEN ParseError("Invalid " \o names[1] \o ": " \o last.err)
        ELSE IF ~bid.ok THEN ParseError("Invalid " \o names[2] \o ": " \o bid.err)
        ELSE IF ~ask.ok THEN ParseError("Invalid " \o names[3] \o ": " \o ask.err)
        ELSE IF ~volume.ok
        THEN ParseError("Invalid " \o names[4] \o ": " \o volume.err)
        ELSE Ok([pair |-> pair, bid |-> bid.val, ask |-> ask.val,
                 last |-> last.val, volume_24h |-> volume.val,
                 timestamp |-> timestamp])

\* BinanceParser::parse
BinanceParser_parse(message) ==
    IF ~message.json THEN ParseError("Invalid JSON")
    ELSE
    LET value == message.value
        event_type == as_str(Index(value, "e"))
        symbol == as_str(Index(value, "s"))
        last_str == as_str(Index(value, "c"))
        bid_str == as_str(Index(value, "b"))
        ask_str == as_str(Index(value, "a"))
        volume_str == unwrap_or(as_str(Index(value, "v")), DecimalZero)
    IN  IF ~event_type.some THEN ParseError("Missing or invalid event type 'e'")
        ELSE IF event_type.val # "24hrTicker"
        THEN ParseError("Not a ticker message, got: " \o event_type.val)
        ELSE IF ~symbol.some THEN ParseError("Missing symbol 's'")
        ELSE IF ~last_str.some THEN ParseError("Missing close price 'c'")
        ELSE IF ~bid_str.some THEN ParseError("Missing bid price 'b'")
        ELSE IF ~ask_str.some THEN ParseError("Missing ask price 'a'")
        ELSE price_of(symbol_to_pair(symbol.val), last_str.val, bid_str.val,
                      ask_str.val, volume_str, UtcNow,
                      <<"close price", "bid price", "ask price", "volume">>)

\* The fields of a Coinbase ticker object, taken from ticker; the outer
\* value supplies the timestamp when the ticker has none.
coinbase_ticker(ticker, value) ==
    LET product_id == as_str(Index(ticker, "product_id"))
        last_str == as_str(Index(ticker, "price"))
        bid_str == as_str(Index(ticker, "best_bid"))
        ask_str == as_str(Index(ticker, "best_ask"))
        volume_24h == as_str(Index(ticker, "volume_24h"))
        volume_str == unwrap_or(IF volume_24h.some THEN volume_24h
                                ELSE as_str(Index(ticker, "volume_24_h")),
                                DecimalZero)
        time == as_str(Index(ticker, "time"))
        time_str == IF time.some THEN time ELSE as_str(Index(value, "timestamp"))
        parsed_time == IF time_str.some THEN parse_from_rfc3339(time_str.val)
                       ELSE None
        timestamp == IF parsed_time.some THEN At(parsed_time.val) ELSE UtcNow
    IN  IF ~product_id.some THEN ParseError("Missing product_id")
        ELSE IF ~last_str.some THEN ParseError("Missing price")
        ELSE IF ~bid_str.some THEN ParseError("Missing best_bid")
        ELSE IF ~ask_str.some THEN ParseError("Missing best_ask")
        ELSE price_of(product_id_to_pair(product_id.val), last_str.val,
                      bid_str.val, ask_str.val, volume_str, timestamp,
                      <<"price", "best_bid", "best_ask", "volume_24h">>)

\* CoinbaseParser::parse
CoinbaseParser_parse(message) ==
    IF ~message.json THEN ParseError("Invalid JSON")
    ELSE
    LET value == message.value
        type == as_str(Index(value, "type"))
        channel_str == as_str(Index(value, "channel"))
        events_arr == as_array(Index(value, "events"))
        tickers_arr == as_array(Index(events_arr.val[1], "tickers"))
    IN  IF type.some /\ type.val = "error"
        THEN ExchangeError("Coinbase WebSocket error: "
                           \o unwrap_or(as_str(Index(value, "message")),
                                        "Unknown error"))
        ELSE IF type.some /\ type.val = "subscriptions"
        THEN ParseError("Subscription confirmation message (not a ticker)")
        ELSE IF type.some /\ type.val = "ticker"
        THEN coinbase_ticker(value, value)
        ELSE IF channel_str.some /\ channel_str.val = "ticker"
        THEN IF ~events_arr.some THEN ParseError("Missing or invalid events array")
             ELSE IF events_arr.val = <<>> THEN ParseError("Events array is empty")
             ELSE IF ~tickers_arr.some
             THEN ParseError("Missing or invalid tickers array")
             ELSE IF tickers_arr.val = <<>> THEN ParseError("Tickers array is empty")
             ELSE coinbase_ticker(tickers_arr.val[1], value)
        ELSE ParseError("Not a ticker message, got type: "
                        \o unwrap_or(type, "unknown"))

----------------------------------------------------------------------------
(* Ticker messages as the exchanges write them, and a caller of parse *)

\* Markets the feeds are asked for.
Markets == {[base |-> <<"S", "O", "L">>, quote |-> <<"U", "S", "D", "C">>],
            [base |-> <<"B", "T", "C">>, quote |-> <<"U", "S", "D">>],
            [base |-> <<"M", "A", "T", "I", "C">>, quote |-> <<"U", "S", "D", "T">>],
            [base |-> <<"O", "G">>, quote |-> <<"B", "T", "C">>]}

\* The canonical pair BASE/QUOTE of a market.
canonical_pair(market) == market.base \o <<"/">> \o market.quote

\* Numbers a ticker reports: 143.50 / 143.48 / 143.52 / 1234.5 and
\* 5 / 4.8 / 5.2 / 0.05.
TickerValues ==
    {[last |-> Decimal(14350, 2), bid |-> Decimal(14348, 2),
      ask |-> Decimal(14352, 2), volume |-> Decimal(12345, 1)],
     [last |-> Decimal(5, 0), bid |-> Decimal(48, 1),
      ask |-> Decimal(52, 1), volume |-> Decimal(5, 2)]}

RECURSIVE digits_of(_)
digits_of(n) ==
    IF n < 10 THEN <<DigitChars[n + 1]>>
    ELSE Append(digits_of(n \div 10), DigitChars[(n % 10) + 1])

RECURSIVE pad_zeros(_, _)
pad_zeros(s, width) == IF Len(s) >= width THEN s ELSE pad_zeros(<<"0">> \o s, width)

\* The decimal string an exchange writes for a non-negative Decimal: all
\* e digits after the point, trailing zeros included.
decimal_string(d) ==
    LET ds == pad_zeros(digits_of(d.m), d.e + 1)
        cut == Len(ds) - d.e
    IN  IF d.e = 0 THEN ds
        ELSE SubSeq(ds, 1, cut) \o <<".">> \o SubSeq(ds, cut + 1, Len(ds))

Shapes == {"binance", "coinbase_flat", "coinbase_nested"}

\* The key under which a shape carries each part of a ticker.
KeyOf(shape, role) ==
    CASE shape = "binance" ->
            (CASE role = "discriminant" -> "e" [] role = "symbol" -> "s"
               [] role = "last" -> "c" [] role = "bid" -> "b"
               [] role = "ask" -> "a" [] role = "volume" -> "v"
               [] role = "time" -> "E")
      [] shape = "coinbase_flat" ->
            (CASE role = "discriminant" -> "type" [] role = "symbol" -> "product_id"
               [] role = "last" -> "price" [] role = "bid" -> "best_bid"
               [] role = "ask" -> "best_ask" [] role = "volume" -> "volume_24h"
               [] role = "time" -> "time")
      [] shape = "coinbase_nested" ->
            (CASE role = "discriminant" -> "channel" [] role = "symbol" -> "product_id"
               [] role = "last" -> "price" [] role = "bid" -> "best_bid"
               [] role = "ask" -> "best_ask" [] role = "volume" -> "volume_24_h"
               [] role = "time" -> "timestamp")

\* The fields of a well-formed ticker object of a shape.
ticker_fields(shape, market, v) ==
    LET numbers == (KeyOf(shape, "last") :> JStr(decimal_string(v.last)))
                   @@ (KeyOf(shape, "bid") :> JStr(decimal_string(v.bid)))
                   @@ (KeyOf(shape, "ask") :> JStr(decimal_string(v.ask)))
                   @@ (KeyOf(shape, "volume") :> JStr(decimal_string(v.volume)))
    IN  CASE shape = "binance" ->
                ("e" :> JStr("24hrTicker"))
                @@ ("s" :> JStr(pair_to_symbol(canonical_pair(market))))
                @@ numbers
          [] shape = "coinbase_flat" ->
                ("type" :> JStr("ticker"))
                @@ ("product_id" :> JStr(pair_to_product_id(canonical_pair(market))))
                @@ ("time" :> JStr(Rfc3339Time))
                @@ numbers
          [] shape = "coinbase_nested" ->
                ("type" :> JStr("ticker"))
                @@ ("product_id" :> JStr(pair_to_product_id(canonical_pair(market))))
                @@ numbers

\* The fields of the envelope of a nested Coinbase message around events.
envelope_fields(events_json) ==
    ("channel" :> JStr("ticker")) @@ ("timestamp" :> JStr(Rfc3339Time))
    @@ ("sequence_num" :> JNum(0)) @@ ("events" :> events_json)

\* One thing wrong with a message: the value under key is missing, is a JSON
\* number, is text that is no number, or is some other name.
damage(fields, key, defect) ==
    CASE defect = "none" -> fields
      [] defect = "absent" -> [k \in DOMAIN fields \ {key} |-> fields[k]]
      [] defect = "number" -> [fields EXCEPT ![key] = JNum(1)]
      [] defect = "not_decimal" -> [fields EXCEPT ![key] = JStr(<<"a", "b", "c">>)]
      [] defect = "wrong" -> [fields EXCEPT ![key] = JStr("trade")]
      [] defect = "not_a_time" -> [fields EXCEPT ![key] = JStr(NotATime)]

NumberRoles == {"last", "bid", "ask", "volume"}

\* What can be wrong with a ticker of a shape: nothing, or one field.
Faults(shape) ==
    {[role |-> "none", defect |-> "none"]}
    \cup {[role |-> "discriminant", defect |-> d] : d \in {"absent", "wrong", "number"}}
    \cup {[role |-> "symbol", defect |-> d] : d \in {"absent", "number"}}
    \cup {[role |-> r, defect |-> d] :
            r \in NumberRoles, d \in {"absent", "number", "not_decimal"}}
    \cup (IF shape = "binance" THEN {}
          ELSE {[role |-> "time", defect |-> d] : d \in {"absent", "not_a_time"}})
    \cup (IF shape # "coinbase_nested" THEN {}
          ELSE {[role |-> "envelope", defect |-> d] :
                  d \in {"no_events", "empty_events", "no_tickers", "empty_tickers"}})

NoMarket == [base |-> <<>>, quote |-> <<>>]
NoValues == [last |-> Decimal(0, 0), bid |-> Decimal(0, 0), ask |-> Decimal(0, 0),
             volume |-> Decimal(0, 0)]

\* Where a message comes from: its shape, the market and numbers it reports,
\* and what is wrong with it.
Origin(shape, market, values, fault) ==
    [shape |-> shape, market |-> market, values |-> values,
     role |-> fault.role, defect |-> fault.defect]

NoOrigin == Origin("none", NoMarket, NoValues, [role |-> "none", defect |-> "none"])

TickerOrigins(shape) ==
    {Origin(shape, market, values, fault) :
        market \in Markets, values \in TickerValues, fault \in Faults(shape)}

OtherOrigins(kinds) ==
    {Origin(k, NoMarket, NoValues, [role |-> "none", defect |-> "none"]) : k \in kinds}

\* Messages a Binance stream carries, and messages a Coinbase feed carries.
BinanceOrigins == TickerOrigins("binance") \cup OtherOrigins({"not_json"})
CoinbaseOrigins ==
    TickerOrigins("coinbase_flat") \cup TickerOrigins("coinbase_nested")
    \cup OtherOrigins({"not_json", "coinbase_error", "coinbase_subscriptions"})

\* The text of the message with origin o.
Build(o) ==
    LET inner == ticker_fields(o.shape, o.market, o.values)
        key == KeyOf(o.shape, o.role)
    IN  CASE o.shape = "not_json" -> NotJsonText
          [] o.shape = "coinbase_error" ->
                JsonText(JObj(("type" :> JStr("error"))
                              @@ ("message" :> JStr("Failed to subscribe"))))
          [] o.shape = "coinbase_subscriptions" ->
                JsonText(JObj(("type" :> JStr("subscriptions"))
                              @@ ("channels" :> JArr(<<JStr("ticker")>>))))
          [] o.shape \in {"binance", "coinbase_flat"} ->
                JsonText(JObj(IF o.role = "none" THEN inner
                              ELSE damage(inner, key, o.defect)))
          [] o.shape = "coinbase_nested" ->
                LET ticker == JObj(IF o.role \in {"symbol"} \cup NumberRoles
                                   THEN damage(inner, key, o.defect) ELSE inner)
                    tickers == IF o.defect = "empty_tickers" THEN JArr(<<>>)
                               ELSE JArr(<<ticker>>)
                    event == IF o.defect = "no_tickers"
                             THEN JObj("type" :> JStr("snapshot"))
                             ELSE JObj(("type" :> JStr("snapshot"))
                                       @@ ("tickers" :> tickers))
                    events_json == IF o.defect = "empty_events" THEN JArr(<<>>)
                              ELSE JArr(<<event>>)
                    outer == envelope_fields(events_json)
                IN  JsonText(JObj(
                        IF o.defect = "no_events" THEN damage(outer, "events", "absent")
                        ELSE IF o.role \in {"discriminant", "time"}
                        THEN damage(outer, key, o.defect)
                        ELSE outer))

\* Before any message has been parsed.
PaInit ==
    /\ origin = NoOrigin
    /\ parseInput = NotJsonText
    /\ parseRet = NoResult

\* BinanceParser::parse is called with a message of a Binance stream.
ParseBinance ==
    \E o \in BinanceOrigins :
        /\ origin' = o
        /\ parseInput' = Build(o)
        /\ parseRet' = BinanceParser_parse(Build(o))

\* CoinbaseParser::parse is called with a message of a Coinbase feed.
ParseCoinbase ==
    \E o \in CoinbaseOrigins :
        /\ origin' = o
        /\ parseInput' = Build(o)
        /\ parseRet' = CoinbaseParser_parse(Build(o))

\* Values of the parser caller's variables while no parser is studied.
PaIdle == PaInit

----------------------------------------------------------------------------
(* The exchange adapters: BinanceExchange and CoinbaseExchange *)

MaxSubscriptions == 2    \* subscribe_ticker calls the owner makes
MaxFeed == 1             \* frames the exchange sends over one subscription
max_attempts == 100      \* polls of the first-price wait
PollIntervalMs == 100    \* sleep before each poll, in milliseconds

Exchanges == {"binance", "coinbase"}
Generations == 1..MaxSubscriptions

\* The pair the owner subscribes to.
SubscribedPair == <<"S", "O", "L", "/", "U", "S", "D", "C">>

\* ReconnectionStrategy::exponential_backoff()
exponential_backoff == new(Some(10), 1, 60)

\* The subscribe control message of Coinbase.
subscribe_msg(product_id) ==
    JObj(("type" :> JStr("subscribe"))
         @@ ("product_ids" :> JArr(<<JStr(product_id)>>))
         @@ ("channels" :> JArr(<<JStr("ticker")>>)))

\* The pair under which an adapter's parser files a ticker of the pair.
parsed_pair(ex, pair) ==
    IF ex = "binance" THEN symbol_to_pair(pair_to_symbol(pair))
    ELSE product_id_to_pair(pair_to_product_id(pair))

\* The k-th price parsed from the feed of subscription g.
feed_price(ex, g, k) ==
    [pair |-> parsed_pair(ex, SubscribedPair), bid |-> 10 * g + k,
     ask |-> 10 * g + k + 1, last |-> 10 * g + k]

\* The subscription whose feed produced a price.
generation_of(price) == price.bid \div 10

\* HashMap::insert, HashMap::contains_key and HashMap::is_empty on
\* latest_prices.
prices_insert(map, key, value) == (key :> value) @@ map
contains_key(map, key) == key \in DOMAIN map
is_empty(map) == DOMAIN map = {}

\* A subscription that has not been made yet.  task is where the spawned
\* WebSocket task stands, cache where Binance's cache-update task stands,
\* queue the prices sent to the cache task's Receiver and not yet received.
\* opens says whether the task holds an open socket.
NoFeed ==
    [task |-> "none", ended_by |-> "none", abort |-> FALSE, strategy |-> None,
     opens |-> 0, outbox |-> <<>>, reads |-> 0, fed |-> 0, pending |-> NoPrice,
     queue |-> <<>>, cache |-> "none"]

AdInit ==
    /\ exchange \in Exchanges
    /\ latest_prices = <<>>
    /\ ws_manager_handle = None
    /\ feeds = [g \in Generations |-> NoFeed]
    /\ caller = [pc |-> "idle", op |-> "new", gen |-> 0, attempts |-> 0,
                 waited |-> 0, timed_out |-> FALSE, ret |-> NoResult]

\* A task that is gone: its locals (manager, socket, strategy) are dropped;
\* what it sent to the channel stays there for the Receiver.
gone(feed, how, why) ==
    [NoFeed EXCEPT !.task = how, !.ended_by = why,
                   !.strategy = IF how = "ended" THEN feed.strategy ELSE None,
                   !.queue = feed.queue, !.cache = feed.cache]

\* The task waits at an await.
Parked == {"connecting", "connected", "sleeping"}

\* handle.abort() marks the task and returns.  A task that waits at an await
\* never runs again: nothing can reach its locals any more, but they are
\* still there, the socket among them, until the runtime drops the task.  A
\* task that is running (it has parsed a ticker and not yet stored it) goes
\* on with all its locals until it yields.
abort(feed) ==
    IF feed.task \in Parked
    THEN [gone(feed, "aborting", "abort") EXCEPT !.opens = feed.opens]
    ELSE IF feed.task = "inserting" THEN [feed EXCEPT !.abort = TRUE]
    ELSE feed

\* The runtime drops a task that was aborted while it waited at an await:
\* its future goes, and with it the socket, the manager and the Sender.
TaskDropped(g) ==
    /\ feeds[g].task = "aborting"
    /\ feeds' = [feeds EXCEPT ![g] = gone(@, "aborted", "abort")]
    /\ UNCHANGED <<exchange, latest_prices, ws_manager_handle, caller>>

\* Nothing is left of the subscriptions before g: their tasks are gone and
\* their channels are empty.
all_gone_before(g) ==
    \A h \in 1..(g - 1) :
        /\ feeds[h].task \in {"none", "ended", "aborted", "unsubscribed"}
        /\ feeds[h].cache \in {"none", "ended"}
        /\ feeds[h].queue = <<>>

\* disconnect(): abort the task of the stored handle, clear the map.
disconnect_feeds ==
    IF ws_manager_handle.some
    THEN [feeds EXCEPT ![ws_manager_handle.val] = abort(@)]
    ELSE feeds

\* The owner calls disconnect().
Disconnect ==
    /\ caller.pc = "idle"
    /\ feeds' = disconnect_feeds
    /\ ws_manager_handle' = None
    /\ latest_prices' = <<>>
    /\ caller' = [caller EXCEPT !.op = "disconnect", !.ret = Ok(Unit)]
    /\ UNCHANGED exchange

\* BinanceExchange::subscribe_ticker up to its first await: disconnect(),
\* then connect_with_subscription, which spawns the manager task and the
\* cache-update task.  The owner subscribes again while at most the tasks
\* of its latest subscription are still around.
BinanceSubscribe ==
    /\ exchange = "binance"
    /\ caller.pc = "idle"
    /\ caller.gen < MaxSubscriptions
    /\ all_gone_before(caller.gen)
    /\ LET g == caller.gen + 1 IN
          /\ feeds' = [disconnect_feeds EXCEPT
                          ![g] = [NoFeed EXCEPT !.task = "connecting",
                                                !.strategy = Some(exponential_backoff),
                                                !.cache = "running"]]
          /\ ws_manager_handle' = Some(g)
          /\ caller' = [pc |-> "polling", op |-> "subscribe_ticker", gen |-> g,
                        attempts |-> 0, waited |-> 0, timed_out |-> FALSE,
                        ret |-> NoResult]
    /\ latest_prices' = <<>>
    /\ UNCHANGED exchange

\* CoinbaseExchange::subscribe_ticker up to its first await: disconnect(),
\* then connect_async is awaited.
CoinbaseSubscribe ==
    /\ exchange = "coinbase"
    /\ caller.pc = "idle"
    /\ caller.gen < MaxSubscriptions
    /\ all_gone_before(caller.gen)
    /\ feeds' = disconnect_feeds
    /\ ws_manager_handle' = None
    /\ caller' = [pc |-> "opening", op |-> "subscribe_ticker",
                  gen |-> caller.gen + 1, attempts |-> 0, waited |-> 0,
                  timed_out |-> FALSE, ret |-> NoResult]
    /\ latest_prices' = <<>>
    /\ UNCHANGED exchange

\* Coinbase: connect_async returns, successfully or not.
CoinbaseConnect ==
    /\ caller.pc = "opening"
    /\ \E ok \in BOOLEAN :
          IF ok
          THEN /\ feeds' = [feeds EXCEPT ![caller.gen].opens = 1]
               /\ caller' = [caller EXCEPT !.pc = "subscribing"]
          ELSE /\ caller' = [caller EXCEPT
                                !.pc = "idle",
                                !.ret = Err(NetworkError("Failed to connect"))]
               /\ UNCHANGED feeds
    /\ UNCHANGED <<exchange, latest_prices, ws_manager_handle>>

\* Variant of CoinbaseSendSubscribe that starts the reader task although
\* the subscribe message could not be sent.
CoinbaseSendSubscribe_SpawnsAnyway ==
    /\ caller.pc = "subscribing"
    /\ \E ok \in BOOLEAN :
          /\ feeds' = [feeds EXCEPT
                  ![caller.gen].outbox =
                      IF ok
                      THEN <<subscribe_msg(pair_to_product_id(SubscribedPair))>>
                      ELSE <<>>,
                  ![caller.gen].task = "connected"]
          /\ ws_manager_handle' = Some(caller.gen)
          /\ caller' = [caller EXCEPT !.pc = "polling"]
    /\ UNCHANGED <<exchange, latest_prices>>

\* Coinbase: write.send(subscribe) returns.  When it was sent the reader
\* task is spawned and its handle stored; otherwise the socket is dropped
\* and subscribe_ticker returns the error.
CoinbaseSendSubscribe ==
    /\ caller.pc = "subscribing"
    /\ \E ok \in BOOLEAN :
          IF ok
          THEN /\ feeds' = [feeds EXCEPT
                      ![caller.gen].outbox =
                          <<subscribe_msg(pair_to_product_id(SubscribedPair))>>,
                      ![caller.gen].task = "connected"]
               /\ ws_manager_handle' = Some(caller.gen)
               /\ caller' = [caller EXCEPT !.pc = "polling"]
          ELSE /\ feeds' = [feeds EXCEPT
                      ![caller.gen] = gone(@, "unsubscribed", "error")]
               /\ caller' = [caller EXCEPT
                      !.pc = "idle",
                      !.ret = Err(NetworkError("Failed to send subscription message"))]
               /\ UNCHANGED ws_manager_handle
    /\ UNCHANGED <<exchange, latest_prices>>

\* Variant of poll that gives up with an error when the polls are used up.
poll_Fatal(c, found) ==
    IF found
    THEN [c EXCEPT !.pc = "idle", !.ret = Ok(Unit), !.attempts = 0, !.waited = 0]
    ELSE IF c.attempts + 1 < max_attempts
    THEN [c EXCEPT !.waited = @ + PollIntervalMs, !.attempts = @ + 1]
    ELSE [c EXCEPT !.pc = "idle", !.ret = Err(NetworkError("No price received")),
                   !.timed_out = TRUE, !.attempts = 0, !.waited = 0]

\* One round of the first-price wait: sleep, look for the pair, count; the
\* loop ends with Ok when the pair is there or the polls are used up, and
\* its counters go out of scope.
poll(c, found) ==
    IF found
    THEN [c EXCEPT !.pc = "idle", !.ret = Ok(Unit), !.attempts = 0, !.waited = 0]
    ELSE IF c.attempts + 1 < max_attempts
    THEN [c EXCEPT !.waited = @ + PollIntervalMs, !.attempts = @ + 1]
    ELSE [c EXCEPT !.pc = "idle", !.ret = Ok(Unit), !.timed_out = TRUE,
                   !.attempts = 0, !.waited = 0]

Poll ==
    /\ caller.pc = "polling"
    /\ caller' = poll(caller, contains_key(latest_prices, SubscribedPair))
    /\ UNCHANGED <<exchange, latest_prices, ws_manager_handle, feeds>>

\* connect_and_run returned Err, which dropped the socket if there was one;
\* run()'s Err arm: sleep before the next attempt while the strategy
\* permits one, else return the error.
after_failure(feed) ==
    IF should_retry(feed.strategy.val)
    THEN [feed EXCEPT !.task = "sleeping",
                      !.opens = 0,
                      !.strategy = Some(next_delay_state(feed.strategy.val))]
    ELSE gone(feed, "ended", "error")

\* Binance's manager task: connect_async returns.
ManagerConnect(g) ==
    /\ feeds[g].task = "connecting"
    /\ \E ok \in BOOLEAN :
          IF ok
          THEN feeds' = [feeds EXCEPT
                      ![g].task = "connected",
                      ![g].opens = 1,
                      ![g].strategy = Some(reset(feeds[g].strategy.val))]
          ELSE feeds' = [feeds EXCEPT ![g] = after_failure(@)]
    /\ UNCHANGED <<exchange, latest_prices, ws_manager_handle, caller>>

\* Binance's manager task: a ticker is read, parsed and sent to the channel.
ManagerReadPrice(g) ==
    /\ feeds[g].task = "connected"
    /\ feeds[g].strategy.some
    /\ feeds[g].fed < MaxFeed
    /\ feeds' = [feeds EXCEPT
            ![g].fed = @ + 1,
            ![g].queue = IF feeds[g].cache = "running"
                         THEN Append(@, feed_price(exchange, g, feeds[g].fed + 1))
                         ELSE @]
    /\ UNCHANGED <<exchange, latest_prices, ws_manager_handle, caller>>

\* Binance's manager task: the connection is closed by the server (run
\* returns Ok) or breaks (read error, failed ping or pong).
ManagerConnectionEnds(g) ==
    /\ feeds[g].task = "connected"
    /\ feeds[g].strategy.some
    /\ \E closed \in BOOLEAN :
          feeds' = [feeds EXCEPT
              ![g] = IF closed THEN gone(@, "ended", "close")
                     ELSE after_failure(@)]
    /\ UNCHANGED <<exchange, latest_prices, ws_manager_handle, caller>>

\* Binance's manager task: the sleep before the next attempt is over.
ManagerWake(g) ==
    /\ feeds[g].task = "sleeping"
    /\ feeds' = [feeds EXCEPT ![g].task = "connecting"]
    /\ UNCHANGED <<exchange, latest_prices, ws_manager_handle, caller>>

\* Binance's cache-update task: rx.recv() returns a price, which is stored.
CacheRecv(g) ==
    /\ feeds[g].cache = "running"
    /\ feeds[g].queue # <<>>
    /\ latest_prices' = prices_insert(latest_prices, Head(feeds[g].queue).pair,
                                      Head(feeds[g].queue))
    /\ feeds' = [feeds EXCEPT ![g].queue = Tail(@)]
    /\ UNCHANGED <<exchange, ws_manager_handle, caller>>

\* Binance's cache-update task: rx.recv() returns Closed once the manager
\* (and with it the Sender) is gone and nothing is left to receive.
CacheClosed(g) ==
    /\ feeds[g].cache = "running"
    /\ feeds[g].queue = <<>>
    /\ feeds[g].task \in {"ended", "aborted"}
    /\ feeds' = [feeds EXCEPT ![g].cache = "ended"]
    /\ UNCHANGED <<exchange, latest_prices, ws_manager_handle, caller>>

\* Coinbase's reader task: a text frame is read; a ticker is parsed and sent
\* to the channel, anything else (the subscription confirmation) is dropped.
ReaderReadText(g) ==
    /\ feeds[g].task = "connected"
    /\ ~feeds[g].strategy.some
    /\ feeds[g].reads < MaxFeed
    /\ \E ticker \in BOOLEAN :
          feeds' = [feeds EXCEPT
              ![g].reads = @ + 1,
              ![g].fed = IF ticker THEN @ + 1 ELSE @,
              ![g].pending = IF ticker
                             THEN feed_price(exchange, g, feeds[g].fed + 1)
                             ELSE @,
              ![g].task = IF ticker THEN "inserting" ELSE @]
    /\ UNCHANGED <<exchange, latest_prices, ws_manager_handle, caller>>

\* Coinbase's reader task: the parsed ticker is stored and the task is back
\* at select!, alive and with its socket, whether or not an abort was
\* requested meanwhile.
ReaderInsert(g) ==
    /\ feeds[g].task = "inserting"
    /\ latest_prices' = prices_insert(latest_prices, feeds[g].pending.pair,
                                      feeds[g].pending)
    /\ feeds' = [feeds EXCEPT ![g].task = "connected", ![g].pending = NoPrice]
    /\ UNCHANGED <<exchange, ws_manager_handle, caller>>

\* Coinbase's reader task, marked by abort() while it was running: at
\* select! nothing is ready, the task yields and the runtime drops it, and
\* with it the socket and the Sender.  (When a frame is ready the task reads
\* it first: ReaderReadText, ReaderBreaks.)
ReaderYields(g) ==
    /\ feeds[g].task = "connected"
    /\ feeds[g].abort
    /\ feeds' = [feeds EXCEPT ![g] = gone(@, "aborted", "abort")]
    /\ UNCHANGED <<exchange, latest_prices, ws_manager_handle, caller>>

\* Coinbase's reader task: the loop breaks on a Close frame or the end of
\* the stream, or on a read error or a failed ping or pong.
ReaderBreaks(g) ==
    /\ feeds[g].task = "connected"
    /\ ~feeds[g].strategy.some
    /\ \E why \in {"close", "error"} :
          feeds' = [feeds EXCEPT ![g] = gone(@, "ended", why)]
    /\ UNCHANGED <<exchange, latest_prices, ws_manager_handle, caller>>

\* is_connected()
is_connected == ~is_empty(latest_prices)

\* Values of the adapter's variables while no adapter is studied.
AdIdle ==
    /\ exchange = "binance"
    /\ latest_prices = <<>>
    /\ ws_manager_handle = None
    /\ feeds = <<>>
    /\ caller = <<>>

\* Values of the remaining variables while they are not studied.
RcIdle == sentOn = <<>>
RlIdle ==
    /\ last_request = None
    /\ request_count = 0
    /\ rlClock = 0
    /\ rlTask = <<>>
    /\ admissions = <<>>
YIdle == RcIdle /\ RlIdle

XIdle == BcIdle /\ PaIdle /\ AdIdle /\ YIdle

\* Values of the cache variables while only the manager is studied.
PsIdle ==
    /\ prices = <<>>
    /\ max_age = 0
    /\ now = 0
    /\ tpc = <<>>
    /\ tloc = <<>>
    /\ tret = <<>>
    /\ calls = 0

\* Values of the direct caller's variables while there is none.
StIdle ==
    /\ startRetry = 0
    /\ resetCalls = 0
    /\ lastCall = NoCall

\* Values of the manager variables while only the cache is studied.
MgrIdle ==
    /\ reconnect_strategy = new(None, 1, 1)
    /\ pc = "connecting"
    /\ err = "none"
    /\ result = NoResult
    /\ delay = 0
    /\ lastFrame = NoFrame
    /\ outbox = <<>>
    /\ broadcast = <<>>
    /\ attempts = 0
    /\ events = 0
    /\ framesRead = 0
    /\ shouldRetryCalls = 0
    /\ nextDelayCalls = 0
    /\ established = FALSE
    /\ failedInARow = 0
    /\ sockets = {}

----------------------------------------------------------------------------
(* The RateLimiter of CoinbaseRestClient.  Instants and durations are      *)
(* milliseconds.                                                           *)

\* RateLimiter::new(10, Duration::from_secs(1)) in CoinbaseRestClient::new.
max_requests == 10
window == 1000

MaxRequests == 12        \* calls of wait_if_needed made in one run
MaxAdvances == 3         \* times the clock moves on, half a window each time

\* Tasks that call the REST client.
RateCallers == {1, 2}

\* Instant::duration_since: zero when earlier is later than self.
duration_since(later, earlier) == IF later >= earlier THEN later - earlier ELSE 0

\* The section of wait_if_needed that holds both mutexes, for a caller that
\* read the clock as t: the new last_request and request_count, and the
\* time to sleep if the caller has to wait.
wait_if_needed(last, count, t) ==
    IF last.some
    THEN IF duration_since(t, last.val) >= window
         THEN [last_request |-> Some(t), request_count |-> 0, wait_time |-> None]
         ELSE IF count >= max_requests
         THEN [last_request |-> last, request_count |-> count,
               wait_time |-> Some(window - duration_since(t, last.val))]
         ELSE [last_request |-> last, request_count |-> count + 1,
               wait_time |-> None]
    ELSE [last_request |-> Some(t), request_count |-> 1, wait_time |-> None]

NotWaiting == [pc |-> "idle", now |-> 0, wake |-> 0]

RlInit ==
    /\ last_request = None
    /\ request_count = 0
    /\ rlClock = 0
    /\ rlTask = [c \in RateCallers |-> NotWaiting]
    /\ admissions = <<>>

\* Calls of wait_if_needed made so far.
Requested ==
    Len(admissions) + Cardinality({c \in RateCallers : rlTask[c].pc # "idle"})

\* wait_if_needed is called: let now = Instant::now().
WaitEnter(c) ==
    /\ rlTask[c].pc = "idle"
    /\ Requested < MaxRequests
    /\ rlTask' = [rlTask EXCEPT ![c] = [pc |-> "locking", now |-> rlClock, wake |-> 0]]
    /\ UNCHANGED <<last_request, request_count, rlClock, admissions>>

\* Both mutexes are taken: the call returns at once, or drops the guards
\* and starts to sleep for wait_time.
WaitLocked(c) ==
    /\ rlTask[c].pc = "locking"
    /\ LET r == wait_if_needed(last_request, request_count, rlTask[c].now) IN
       /\ last_request' = r.last_request
       /\ request_count' = r.request_count
       /\ IF r.wait_time.some
          THEN /\ rlTask' = [rlTask EXCEPT ![c].pc = "sleeping",
                                           ![c].wake = rlClock + r.wait_time.val]
               /\ UNCHANGED admissions
          ELSE /\ rlTask' = [rlTask EXCEPT ![c] = NotWaiting]
               /\ admissions' = Append(admissions,
                      [at |-> rlClock, starts |-> r.last_request # last_request])
    /\ UNCHANGED rlClock

\* sleep(wait_time) is over: the mutexes are taken again, the counter is
\* reset, last_request becomes Instant::now(), and the call returns.
WaitWake(c) ==
    /\ rlTask[c].pc = "sleeping"
    /\ rlClock >= rlTask[c].wake
    /\ request_count' = 0
    /\ last_request' = Some(rlClock)
    /\ rlTask' = [rlTask EXCEPT ![c] = NotWaiting]
    /\ admissions' = Append(admissions, [at |-> rlClock, starts |-> TRUE])
    /\ UNCHANGED rlClock

\* Time passes.
Advance ==
    /\ rlClock < MaxAdvances * (window \div 2)
    /\ rlClock' = rlClock + (window \div 2)
    /\ UNCHANGED <<last_request, request_count, rlTask, admissions>>

----------------------------------------------------------------------------
(* WebSocketManager::run together with the channel made by new and the     *)
(* Receiver that new returned                                              *)

\* The text arm of the read loop with the channel behind message_tx: what
\* HandleText hands to send goes through TextArm into the channel.
ReadAndBroadcast ==
    /\ ReadFrame
    /\ IF lastFrame'.kind = "Text"
       THEN /\ TextArm(lastFrame'.data)
            /\ sentOn' = IF lastParse'.ok THEN Append(sentOn, attempts) ELSE sentOn
       ELSE UNCHANGED <<bcVars, sentOn>>

\* Variant of Reconnected in which every connection gets a channel of its own.
Reconnected_NewChannel ==
    /\ ConnectOk
    /\ chan' = channel(BroadcastCapacity)
    /\ UNCHANGED <<rx, sent, lastParse, sentOn>>

\* connect_async succeeds: the new connection uses self.message_tx, the
\* Sender made by new.
Reconnected ==
    /\ ConnectOk
    /\ UNCHANGED <<bcVars, sentOn>>

\* The manager is dropped, by its owner once run has returned or with the
\* task that runs it when that is aborted at an await: message_tx, the only
\* Sender, is dropped with it, which closes the channel.
DropManager ==
    /\ pc \in {"connecting", "sleeping", "returned"} \cup InLoop
    /\ pc' = "dropped"
    /\ sockets' = IF pc \in InLoop THEN release(sockets, attempts) ELSE sockets
    /\ chan' = [chan EXCEPT !.closed = TRUE]
    /\ UNCHANGED <<reconnect_strategy, err, result, delay, lastFrame, outbox,
                   broadcast, attempts, events, framesRead, shouldRetryCalls,
                   nextDelayCalls, established, failedInARow, rx, sent,
                   lastParse, sentOn>>

----------------------------------------------------------------------------
(* Specification of the manager *)

Init == MgrInit /\ PsIdle /\ StIdle /\ XIdle

Next ==
    \/ ConnectFail /\ UNCHANGED <<psVars, stVars, xVars>>
    \/ ConnectOk /\ UNCHANGED <<psVars, stVars, xVars>>
    \/ ReadFrame /\ UNCHANGED <<psVars, stVars, xVars>>
    \/ SendPong /\ UNCHANGED <<psVars, stVars, xVars>>
    \/ HealthCheckTick /\ UNCHANGED <<psVars, stVars, xVars>>
    \/ SendPing /\ UNCHANGED <<psVars, stVars, xVars>>
    \/ GiveUp /\ UNCHANGED <<psVars, stVars, xVars>>
    \/ Retry /\ UNCHANGED <<psVars, stVars, xVars>>
    \/ Wake /\ UNCHANGED <<psVars, stVars, xVars>>

Spec == Init /\ [][Next]_vars

----------------------------------------------------------------------------
(* Specification of a manager whose target is unreachable: every           *)
(* connect_async fails and max_retries is finite.  connect_async and       *)
(* tokio::time::sleep both complete, hence weak fairness of the steps.     *)

InitUnreachable == Init /\ reconnect_strategy.max_retries.some

NextUnreachable ==
    \/ ConnectFail /\ UNCHANGED <<psVars, stVars, xVars>>
    \/ GiveUp /\ UNCHANGED <<psVars, stVars, xVars>>
    \/ Retry /\ UNCHANGED <<psVars, stVars, xVars>>
    \/ Wake /\ UNCHANGED <<psVars, stVars, xVars>>

SpecUnreachable ==
    InitUnreachable /\ [][NextUnreachable]_vars /\ WF_vars(NextUnreachable)

----------------------------------------------------------------------------
(* Specification of a ReconnectionStrategy driven by a direct caller, as   *)
(* the unit tests do: should_retry, next_delay and reset in any order.     *)
(* The caller holds a strategy that is fresh or has served all but two of  *)
(* the next_delay calls a u32 can count.                                   *)

CounterStarts == {0, U32Max - 1}

StInit ==
    /\ \E mr \in {None} \cup {Some(n) : n \in 0..MaxRetriesBound},
          id \in 1..MaxInitialDelay, md \in 1..MaxDelayBound,
          c \in CounterStarts :
          /\ reconnect_strategy = [new(mr, id, md) EXCEPT !.current_retry = c]
          /\ startRetry = c
    /\ pc = "ready"
    /\ err = "none"
    /\ result = NoResult
    /\ delay = 0
    /\ lastFrame = NoFrame
    /\ outbox = <<>>
    /\ broadcast = <<>>
    /\ attempts = 0
    /\ events = 0
    /\ framesRead = 0
    /\ shouldRetryCalls = 0
    /\ nextDelayCalls = 0
    /\ established = FALSE
    /\ failedInARow = 0
    /\ sockets = {}
    /\ resetCalls = 0
    /\ lastCall = NoCall

\* strategy.should_retry()
CallShouldRetry ==
    /\ pc = "ready"
    /\ lastCall' = [op |-> "should_retry", ret |-> should_retry(reconnect_strategy)]
    /\ UNCHANGED <<reconnect_strategy, pc, err, result, delay, lastFrame, outbox,
                   broadcast, attempts, events, framesRead, shouldRetryCalls,
                   nextDelayCalls, failedInARow, established, sockets, startRetry, resetCalls>>

\* strategy.next_delay().  When the increment overflows, a build that checks
\* overflow panics before anything is stored or returned, and a build that
\* does not stores the wrapped counter.
CallNextDelay ==
    /\ pc = "ready"
    /\ nextDelayCalls < MaxDelayCalls
    /\ \/ /\ next_delay_overflows(reconnect_strategy)
          /\ pc' = "panicked"
          /\ UNCHANGED <<reconnect_strategy, delay, nextDelayCalls, lastCall>>
       \/ /\ delay' = next_delay_value(reconnect_strategy)
          /\ reconnect_strategy' = next_delay_state(reconnect_strategy)
          /\ nextDelayCalls' = nextDelayCalls + 1
          /\ lastCall' = [op |-> "next_delay",
                          ret |-> next_delay_value(reconnect_strategy)]
          /\ UNCHANGED pc
    /\ UNCHANGED <<err, result, lastFrame, outbox, broadcast, attempts, events,
                   framesRead, shouldRetryCalls, failedInARow, established, sockets, startRetry,
                   resetCalls>>

\* strategy.reset()
CallReset ==
    /\ pc = "ready"
    /\ resetCalls < MaxResetCalls
    /\ reconnect_strategy' = reset(reconnect_strategy)
    /\ resetCalls' = resetCalls + 1
    /\ lastCall' = [op |-> "reset", ret |-> Unit]
    /\ UNCHANGED <<pc, err, result, delay, lastFrame, outbox, broadcast, attempts,
                   events, framesRead, shouldRetryCalls, nextDelayCalls,
                   failedInARow, established, sockets, startRetry>>

InitStrategy == StInit /\ PsIdle /\ XIdle

NextStrategy ==
    \/ CallShouldRetry /\ UNCHANGED <<psVars, xVars>>
    \/ CallNextDelay /\ UNCHANGED <<psVars, xVars>>
    \/ CallReset /\ UNCHANGED <<psVars, xVars>>

SpecStrategy == InitStrategy /\ [][NextStrategy]_vars

----------------------------------------------------------------------------
(* Specification of the price cache shared by concurrent tasks *)

InitPrice == MgrIdle /\ PsInit(Tasks) /\ StIdle /\ XIdle

NextPrice ==
    \/ Tick /\ UNCHANGED <<mgrVars, stVars, xVars>>
    \/ \E t \in Tasks : UpdatePriceNew(t) /\ UNCHANGED <<mgrVars, stVars, xVars>>
    \/ \E t \in Tasks : UpdatePriceInsert(t) /\ UNCHANGED <<mgrVars, stVars, xVars>>
    \/ \E t \in Tasks : GetPrice(t) /\ UNCHANGED <<mgrVars, stVars, xVars>>
    \/ \E t \in Tasks : GetAllPrices(t) /\ UNCHANGED <<mgrVars, stVars, xVars>>
    \/ \E t \in Tasks : GetSpreadPrice1(t) /\ UNCHANGED <<mgrVars, stVars, xVars>>
    \/ \E t \in Tasks : GetSpreadPrice2(t) /\ UNCHANGED <<mgrVars, stVars, xVars>>
    \/ \E t \in Tasks : GetSpreadStale1(t) /\ UNCHANGED <<mgrVars, stVars, xVars>>
    \/ \E t \in Tasks : GetSpreadStale2(t) /\ UNCHANGED <<mgrVars, stVars, xVars>>

SpecPrice == InitPrice /\ [][NextPrice]_vars

----------------------------------------------------------------------------
(* Specification of the whole PriceState interface used by two tasks *)

NextCache ==
    \/ Tick /\ UNCHANGED <<mgrVars, stVars, xVars>>
    \/ \E t \in Feeds : UpdatePriceQuote(t) /\ UNCHANGED <<mgrVars, stVars, xVars>>
    \/ \E t \in Feeds : UpdatePriceInsert(t) /\ UNCHANGED <<mgrVars, stVars, xVars>>
    \/ \E t \in Consumers : GetPrice(t) /\ UNCHANGED <<mgrVars, stVars, xVars>>
    \/ \E t \in Consumers : GetAllPrices(t) /\ UNCHANGED <<mgrVars, stVars, xVars>>
    \/ \E t \in Consumers : GetSpreadPrice1(t) /\ UNCHANGED <<mgrVars, stVars, xVars>>
    \/ \E t \in Consumers : GetSpreadPercentage(t) /\ UNCHANGED <<mgrVars, stVars, xVars>>
    \/ \E t \in Consumers : GetSpreadPrice2(t) /\ UNCHANGED <<mgrVars, stVars, xVars>>
    \/ \E t \in Consumers : GetSpreadStale1(t) /\ UNCHANGED <<mgrVars, stVars, xVars>>
    \/ \E t \in Consumers : GetSpreadStale2(t) /\ UNCHANGED <<mgrVars, stVars, xVars>>
    \/ \E t \in Consumers : GetSpreadPercentagePrice1(t) /\ UNCHANGED <<mgrVars, stVars, xVars>>
    \/ \E t \in Consumers : IsStaleGet(t) /\ UNCHANGED <<mgrVars, stVars, xVars>>
    \/ \E t \in Consumers : IsStaleAge(t) /\ UNCHANGED <<mgrVars, stVars, xVars>>
    \/ \E t \in Consumers : RemoveStaleLock(t) /\ UNCHANGED <<mgrVars, stVars, xVars>>
    \/ \E t \in Consumers : RemoveStaleRetain(t) /\ UNCHANGED <<mgrVars, stVars, xVars>>
    \/ \E t \in Consumers : Clear(t) /\ UNCHANGED <<mgrVars, stVars, xVars>>

SpecCache == InitPrice /\ [][NextCache]_vars

----------------------------------------------------------------------------
(* Specification of the concurrent-writes scenario *)

InitWriters == MgrIdle /\ PsInit({0} \cup Writers) /\ StIdle /\ XIdle

NextWriters ==
    \/ Tick /\ UNCHANGED <<mgrVars, stVars, xVars>>
    \/ \E w \in Writers : WriterUpdatePriceNew(w) /\ UNCHANGED <<mgrVars, stVars, xVars>>
    \/ \E w \in Writers : UpdatePriceInsert(w) /\ UNCHANGED <<mgrVars, stVars, xVars>>
    \/ JoinedGetAllPrices /\ UNCHANGED <<mgrVars, stVars, xVars>>

SpecWriters == InitWriters /\ [][NextWriters]_vars

----------------------------------------------------------------------------
(* Specification of the fan-out: the read loop sends, subscribers receive, *)
(* come and go                                                             *)

InitBroadcast ==
    MgrIdle /\ PsIdle /\ StIdle /\ BcInit /\ PaIdle /\ AdIdle /\ YIdle

NextBroadcast ==
    \/ ReadText /\ UNCHANGED <<mgrVars, psVars, stVars, paVars, adVars, yVars>>
    \/ \E s \in Subscribers : Recv(s) /\ UNCHANGED <<mgrVars, psVars, stVars, paVars, adVars, yVars>>
    \/ \E s \in Subscribers : Resubscribe(s) /\ UNCHANGED <<mgrVars, psVars, stVars, paVars, adVars, yVars>>
    \/ \E s \in Subscribers : DropReceiver(s) /\ UNCHANGED <<mgrVars, psVars, stVars, paVars, adVars, yVars>>

SpecBroadcast == InitBroadcast /\ [][NextBroadcast]_vars

----------------------------------------------------------------------------
(* Specification of the two parsers called on the messages of their feeds *)

InitParse ==
    MgrIdle /\ PsIdle /\ StIdle /\ BcIdle /\ PaInit /\ AdIdle /\ YIdle

NextParse ==
    \/ ParseBinance /\ UNCHANGED <<mgrVars, psVars, stVars, bcVars, adVars, yVars>>
    \/ ParseCoinbase /\ UNCHANGED <<mgrVars, psVars, stVars, bcVars, adVars, yVars>>

SpecParse == InitParse /\ [][NextParse]_vars

----------------------------------------------------------------------------
(* Specification of an exchange adapter, its owner and its background tasks *)

InitAdapter ==
    MgrIdle /\ PsIdle /\ StIdle /\ BcIdle /\ PaIdle /\ AdInit /\ YIdle

NextAdapter ==
    \/ Disconnect /\ UNCHANGED <<mgrVars, psVars, stVars, bcVars, paVars, yVars>>
    \/ BinanceSubscribe /\ UNCHANGED <<mgrVars, psVars, stVars, bcVars, paVars, yVars>>
    \/ CoinbaseSubscribe /\ UNCHANGED <<mgrVars, psVars, stVars, bcVars, paVars, yVars>>
    \/ CoinbaseConnect /\ UNCHANGED <<mgrVars, psVars, stVars, bcVars, paVars, yVars>>
    \/ CoinbaseSendSubscribe /\ UNCHANGED <<mgrVars, psVars, stVars, bcVars, paVars, yVars>>
    \/ Poll /\ UNCHANGED <<mgrVars, psVars, stVars, bcVars, paVars, yVars>>
    \/ \E g \in Generations :
          /\ \/ ManagerConnect(g)
             \/ ManagerReadPrice(g)
             \/ ManagerConnectionEnds(g)
             \/ ManagerWake(g)
             \/ CacheRecv(g)
             \/ CacheClosed(g)
             \/ ReaderReadText(g)
             \/ ReaderInsert(g)
             \/ ReaderYields(g)
             \/ ReaderBreaks(g)
             \/ TaskDropped(g)
          /\ UNCHANGED <<mgrVars, psVars, stVars, bcVars, paVars, yVars>>

SpecAdapter == InitAdapter /\ [][NextAdapter]_vars

----------------------------------------------------------------------------
(* Specification of spread computations on a map that stays as it is: the  *)
(* map holds, for the watched pair, any records received up to now, and    *)
(* two tasks call get_spread or get_spread_percentage at that instant.     *)

\* What a key of the watched pair may hold at instant t.
StoredAt(t) ==
    {None} \cup {Some(PriceData_new(Price(pair, u[1], u[2]), u[3], received)) :
                    pair \in WatchedPairs, u \in Quotes, received \in 0..t}

InitSpread ==
    /\ MgrIdle /\ StIdle /\ XIdle
    /\ max_age \in {MaxAgeBound - 1, MaxAgeBound}
    /\ now \in 0..MaxTime
    /\ \E held \in [WatchedKeys -> StoredAt(now)] :
          prices = [k \in Keys |-> IF k \in WatchedKeys THEN held[k] ELSE None]
    /\ tpc = [t \in Tasks |-> "idle"]
    /\ tloc = [t \in Tasks |-> NoCall]
    /\ tret = [t \in Tasks |-> NoResult]
    /\ calls = 0

\* Task 2 calls what task 1 called, with the exchanges exchanged.
SecondMirrorsFirst ==
    /\ tloc[2].op = tloc[1].op
    /\ tloc[2].pair = tloc[1].pair
    /\ tloc[2].ex1 = tloc[1].ex2
    /\ tloc[2].ex2 = tloc[1].ex1

\* Task 1 makes one call; once it has returned, task 2 makes the mirrored one.
NextSpread ==
    \/ tpc[1] = "idle" /\ GetSpreadPrice1(1) /\ UNCHANGED <<mgrVars, stVars, xVars>>
    \/ tpc[1] = "idle" /\ GetSpreadPercentage(1) /\ UNCHANGED <<mgrVars, stVars, xVars>>
    \/ /\ tpc[1] = "ret" /\ tpc[2] = "idle"
       /\ GetSpreadPrice1(2) /\ SecondMirrorsFirst'
       /\ UNCHANGED <<mgrVars, stVars, xVars>>
    \/ /\ tpc[1] = "ret" /\ tpc[2] = "idle"
       /\ GetSpreadPercentage(2) /\ SecondMirrorsFirst'
       /\ UNCHANGED <<mgrVars, stVars, xVars>>
    \/ \E t \in Tasks : GetSpreadPrice2(t) /\ UNCHANGED <<mgrVars, stVars, xVars>>
    \/ \E t \in Tasks : GetSpreadStale1(t) /\ UNCHANGED <<mgrVars, stVars, xVars>>
    \/ \E t \in Tasks : GetSpreadStale2(t) /\ UNCHANGED <<mgrVars, stVars, xVars>>
    \/ \E t \in Tasks : GetSpreadPercentagePrice1(t) /\ UNCHANGED <<mgrVars, stVars, xVars>>

SpecSpread == InitSpread /\ [][NextSpread]_vars

----------------------------------------------------------------------------
(* Specification of updates of any key: the map holds a record received at *)
(* instant 0 for some of the four keys, and two tasks call update_price     *)
(* once each, on any key, at a later or the same instant.                   *)

\* The record key k holds from the start, if it holds one.
HeldFromStart(k) ==
    PriceData_new(Price(k[2], 995, 1005), IF k[1] = "Binance" THEN 7 ELSE 8, 0)

\* update_price on any key, first half.
UpdatePriceAnyKey(t) ==
    /\ CanCall(t)
    /\ \E key \in Keys, u \in Updates : UpdatePriceCall(t, key, u)

InitSlices ==
    /\ MgrIdle /\ StIdle /\ XIdle
    /\ max_age \in {MaxAgeBound - 1, MaxAgeBound}
    /\ now \in 0..MaxTime
    /\ \E held \in SUBSET Keys :
          prices = [k \in Keys |-> IF k \in held THEN Some(HeldFromStart(k)) ELSE None]
    /\ tpc = [t \in Tasks |-> "idle"]
    /\ tloc = [t \in Tasks |-> NoCall]
    /\ tret = [t \in Tasks |-> NoResult]
    /\ calls = 0

NextSlices ==
    \/ \E t \in Tasks :
          tpc[t] = "idle" /\ UpdatePriceAnyKey(t) /\ UNCHANGED <<mgrVars, stVars, xVars>>
    \/ \E t \in Tasks : UpdatePriceInsert(t) /\ UNCHANGED <<mgrVars, stVars, xVars>>

SpecSlices == InitSlices /\ [][NextSlices]_vars

----------------------------------------------------------------------------
(* Specification of a manager that runs, is dropped at some point, and the *)
(* holder of the Receiver returned by new, which keeps receiving.  The     *)
(* delays of the strategy play no part here and are one second.            *)

InitReconnect ==
    /\ MgrInit
    /\ reconnect_strategy.initial_delay = 1
    /\ reconnect_strategy.max_delay = 1
    /\ PsIdle /\ StIdle /\ BcInit /\ PaIdle /\ AdIdle /\ RcIdle /\ RlIdle

NextReconnect ==
    \/ ConnectFail /\ UNCHANGED <<psVars, stVars, bcVars, paVars, adVars, yVars>>
    \/ Reconnected /\ UNCHANGED <<psVars, stVars, paVars, adVars, rlVars>>
    \/ ReadAndBroadcast /\ UNCHANGED <<psVars, stVars, paVars, adVars, rlVars>>
    \/ SendPong /\ UNCHANGED <<psVars, stVars, bcVars, paVars, adVars, yVars>>
    \/ HealthCheckTick /\ UNCHANGED <<psVars, stVars, bcVars, paVars, adVars, yVars>>
    \/ SendPing /\ UNCHANGED <<psVars, stVars, bcVars, paVars, adVars, yVars>>
    \/ GiveUp /\ UNCHANGED <<psVars, stVars, bcVars, paVars, adVars, yVars>>
    \/ Retry /\ UNCHANGED <<psVars, stVars, bcVars, paVars, adVars, yVars>>
    \/ Wake /\ UNCHANGED <<psVars, stVars, bcVars, paVars, adVars, yVars>>
    \/ DropManager /\ UNCHANGED <<psVars, stVars, paVars, adVars, rlVars>>
    \/ Recv(1) /\ UNCHANGED <<mgrVars, psVars, stVars, paVars, adVars, yVars>>

SpecReconnect == InitReconnect /\ [][NextReconnect]_vars

----------------------------------------------------------------------------
(* Specification of the RateLimiter called by two tasks *)

InitRateLimiter ==
    MgrIdle /\ PsIdle /\ StIdle /\ BcIdle /\ PaIdle /\ AdIdle /\ RcIdle /\ RlInit

NextRateLimiter ==
    \/ \E c \in RateCallers :
          WaitEnter(c) /\ UNCHANGED <<mgrVars, psVars, stVars, bcVars, paVars, adVars, rcVars>>
    \/ \E c \in RateCallers :
          WaitLocked(c) /\ UNCHANGED <<mgrVars, psVars, stVars, bcVars, paVars, adVars, rcVars>>
    \/ \E c \in RateCallers :
          WaitWake(c) /\ UNCHANGED <<mgrVars, psVars, stVars, bcVars, paVars, adVars, rcVars>>
    \/ Advance /\ UNCHANGED <<mgrVars, psVars, stVars, bcVars, paVars, adVars, rcVars>>

SpecRateLimiter == InitRateLimiter /\ [][NextRateLimiter]_vars

----------------------------------------------------------------------------
(* Claims about WebSocketManager *)

\* A frame was taken from read.next() in this step.
FrameRead == framesRead' = framesRead + 1

\* C1: a failed cycle (pc = "failed") is followed, when should_retry() holds,
\* by exactly one next_delay() whose value is slept and then by a new
\* connection attempt; otherwise run returns that cycle's error and no
\* further connection attempt is made.
C1_FailedCycleRetriesOrReturns ==
    /\ [][pc = "failed" =>
            IF should_retry(reconnect_strategy)
            THEN /\ pc' = "sleeping"
                 /\ nextDelayCalls' = nextDelayCalls + 1
                 /\ reconnect_strategy'.current_retry
                        = reconnect_strategy.current_retry + 1
                 /\ delay' = next_delay_value(reconnect_strategy)
                 /\ result' = NoResult
                 /\ attempts' = attempts
            ELSE /\ pc' = "returned"
                 /\ result' = Err(err)
                 /\ nextDelayCalls' = nextDelayCalls
                 /\ attempts' = attempts]_vars
    /\ [][pc = "sleeping" =>
            /\ pc' = "connecting"
            /\ delay' = delay
            /\ nextDelayCalls' = nextDelayCalls
            /\ attempts' = attempts]_vars
    /\ [][pc = "connecting" => attempts' = attempts + 1]_vars
    /\ [][pc = "returned" => pc' = "returned" /\ attempts' = attempts]_vars

\* C1 witness: run retried at least once and then returned the last error.
C1_Witness ==
    /\ pc = "returned"
    /\ result = Err(err)
    /\ nextDelayCalls >= 1
    /\ attempts = nextDelayCalls + 1

\* C2: while connected the attempt counter is 0, and the sleep that follows
\* the failure of an established connection lasts min(initial_delay, max_delay).
C2_ResetOnConnect ==
    /\ (pc = "connected" => reconnect_strategy.current_retry = 0)
    /\ (pc = "sleeping" /\ established =>
            delay = Min(reconnect_strategy.initial_delay,
                        reconnect_strategy.max_delay))

\* C2 witness: two failed attempts, a connection, and the sleep after its failure.
C2_Witness ==
    /\ pc = "sleeping"
    /\ established
    /\ nextDelayCalls = 3
    /\ reconnect_strategy.initial_delay * 2 <= reconnect_strategy.max_delay

\* C3: a close frame or end-of-stream makes run return Ok without calling
\* should_retry or next_delay, and nothing happens after run has returned.
C3_NormalClosureIsFinal ==
    /\ [][FrameRead /\ lastFrame'.kind \in {"Close", "None"} =>
            /\ pc' = "returned"
            /\ result' = Ok(Unit)
            /\ shouldRetryCalls' = shouldRetryCalls
            /\ nextDelayCalls' = nextDelayCalls
            /\ reconnect_strategy' = reconnect_strategy]_vars
    /\ [][pc = "returned" =>
            /\ pc' = "returned"
            /\ result' = result
            /\ attempts' = attempts
            /\ shouldRetryCalls' = shouldRetryCalls
            /\ nextDelayCalls' = nextDelayCalls]_vars

\* C3 witness: the stream ended while retries were still permitted.
C3_Witness ==
    /\ pc = "returned"
    /\ result = Ok(Unit)
    /\ lastFrame = EndOfStream
    /\ should_retry(reconnect_strategy)
    /\ reconnect_strategy.max_retries.some

\* C4: with every connection attempt failing and a finite max_retries, run
\* eventually returns an Err.
C4_UnreachableTerminates ==
    <>(pc = "returned" /\ result = Err(NetworkError("Failed to connect")))

\* C4 witness: the budget of max_retries sleeps was used up before returning.
C4_Witness ==
    /\ pc = "returned"
    /\ result = Err(NetworkError("Failed to connect"))
    /\ nextDelayCalls = reconnect_strategy.max_retries.val
    /\ attempts = reconnect_strategy.max_retries.val + 1
    /\ attempts >= 3

\* C5: a text frame that does not parse broadcasts nothing, leaves the
\* strategy alone and keeps the manager connected.
C5_ParseFailureIsNotFatal ==
    [][FrameRead /\ lastFrame'.kind = "Text" /\ ~parse(lastFrame'.data).ok =>
            /\ broadcast' = broadcast
            /\ reconnect_strategy' = reconnect_strategy
            /\ pc' = "connected"
            /\ err' = err
            /\ result' = result
            /\ outbox' = outbox]_vars

\* C5 witness: still connected after several frames, the last one unparsable,
\* with nothing broadcast.
C5_Witness ==
    /\ pc = "connected"
    /\ framesRead >= 2
    /\ lastFrame.kind = "Text"
    /\ ~parse(lastFrame.data).ok
    /\ broadcast = <<>>
    /\ outbox = <<>>

\* C6: a ping frame is answered by a pong with the same payload before the
\* next frame is read: reading a ping only starts the send of the pong, and
\* the next step of the manager is the end of that send, which writes
\* Pong(payload) and goes on, or fails; the health-check tick likewise only
\* starts the send of an empty ping; a failed pong or health-check ping
\* send ends the cycle in the failed state with a network error and without
\* a result.
C6_PingPong ==
    /\ [](pc = "ponging" => lastFrame.kind = "Ping")
    /\ [][FrameRead /\ lastFrame'.kind = "Ping" =>
            /\ pc' = "ponging"
            /\ outbox' = outbox
            /\ err' = err
            /\ result' = result]_vars
    /\ [][pc = "ponging" =>
            /\ ~FrameRead
            /\ lastFrame' = lastFrame
            /\ \/ /\ pc' = "connected"
                  /\ outbox' = Append(outbox, Pong(lastFrame.data))
               \/ /\ pc' = "failed"
                  /\ err' = NetworkError("Failed to send pong")
                  /\ result' = NoResult
                  /\ outbox' = outbox]_vars
    /\ [][pc = "connected" /\ events' = events + 1 /\ ~FrameRead =>
            /\ pc' = "pinging"
            /\ outbox' = outbox
            /\ err' = err
            /\ result' = result]_vars
    /\ [][pc = "pinging" =>
            /\ ~FrameRead
            /\ \/ /\ pc' = "connected"
                  /\ outbox' = Append(outbox, Ping(<<>>))
               \/ /\ pc' = "failed"
                  /\ err' = NetworkError("Failed to send ping")
                  /\ result' = NoResult
                  /\ outbox' = outbox]_vars

\* C6 witness: one ping was answered with its payload, the next pong failed.
C6_Witness ==
    /\ pc = "failed"
    /\ err = NetworkError("Failed to send pong")
    /\ lastFrame.kind = "Ping"
    /\ outbox = <<Pong(<<7>>)>>

\* C20: every step takes at most one frame from the stream, a text frame
\* that parses appends its price to the end of what was broadcast before, and
\* no other step touches the broadcast sequence; so the broadcast sequence is
\* the parsed text frames in arrival order.
C20_FramesInOrder ==
    [][/\ framesRead' \in {framesRead, framesRead + 1, 0}
       /\ broadcast' =
            IF FrameRead /\ lastFrame'.kind = "Text" /\ parse(lastFrame'.data).ok
            THEN Append(broadcast, parse(lastFrame'.data).val)
            ELSE broadcast]_vars

\* C20 witness: three frames arrived, the second did not parse, and the
\* prices of the first and the third were broadcast in that order.
C20_Witness ==
    /\ pc = "connected"
    /\ framesRead = 3
    /\ lastFrame = Text(Tick1)
    /\ broadcast = <<parse(Tick2).val, parse(Tick1).val>>

\* C23: at most one connection is open at any time, and none while the
\* manager is between connections (failed, sleeping, about to connect) or
\* after run has returned.
C23_OneSocket ==
    /\ Cardinality(sockets) <= 1
    /\ pc \in {"failed", "sleeping", "connecting", "returned"} => sockets = {}

\* C23 witness: the second connection is open and is the only one; the first
\* was discarded when its cycle failed.
C23_Witness ==
    /\ pc = "connected"
    /\ attempts = 2
    /\ err = NetworkError("WebSocket error")
    /\ nextDelayCalls = 1
    /\ sockets = {2}

----------------------------------------------------------------------------
(* Claims about ReconnectionStrategy *)

\* A next_delay call returns in this step.
IsNextDelay == nextDelayCalls' = nextDelayCalls + 1

\* A reset call is made in this step.
IsReset == resetCalls' = resetCalls + 1

\* The policy fields of a strategy.
Policy(s) == <<s.max_retries, s.initial_delay, s.max_delay, s.multiplier>>

\* Fewer than n next_delay calls have been made since the strategy was
\* constructed (a strategy taken over with a non-zero counter has served
\* more calls than any n of the model).
CallsSinceFreshBelow(n) == startRetry = 0 /\ nextDelayCalls < n

\* C15: should_retry() returns true exactly when max_retries is unset or the
\* counter is below it, and, as long as no reset was made, exactly when
\* max_retries is unset or fewer than max_retries next_delay calls were made
\* since construction.
C15_ShouldRetry ==
    lastCall.op = "should_retry" =>
        LET s == reconnect_strategy IN
        /\ lastCall.ret = (\/ ~s.max_retries.some
                           \/ (s.current_retry >= 0
                               /\ s.current_retry < s.max_retries.val))
        /\ (resetCalls = 0 =>
                lastCall.ret = (\/ ~s.max_retries.some
                                \/ CallsSinceFreshBelow(s.max_retries.val)))

\* min(initial_delay * 2^min(n, 30), max_delay) for the n-th call since
\* construction, n counted from 0.
C16_Expected(s) ==
    LET exponent == IF startRetry = 0 THEN Min(nextDelayCalls, 30) ELSE 30
        power == powi(2, exponent)
    IN  IF power <= s.max_delay \div s.initial_delay
        THEN s.initial_delay * power
        ELSE s.max_delay

\* C16: without a reset, the n-th next_delay call returns
\* min(initial_delay * 2^min(n, 30), max_delay), never more than max_delay
\* and never less than the call before it.
C16_NextDelaySequence ==
    [][IsNextDelay /\ resetCalls = 0 =>
            /\ delay' = C16_Expected(reconnect_strategy)
            /\ lastCall'.ret = delay'
            /\ delay' <= reconnect_strategy.max_delay
            /\ (nextDelayCalls >= 1 => delay' >= delay)]_vars

\* C17: reset sets the counter to 0 and changes nothing else, a second reset
\* in a row changes nothing, and the next_delay that follows a reset returns
\* min(initial_delay, max_delay), which is what the first next_delay of a
\* fresh strategy returns.
C17_ResetRestarts ==
    [][/\ IsReset =>
            /\ reconnect_strategy'.current_retry = 0
            /\ Policy(reconnect_strategy') = Policy(reconnect_strategy)
            /\ delay' = delay
            /\ (lastCall.op = "reset" => reconnect_strategy' = reconnect_strategy)
       /\ IsNextDelay /\ (lastCall.op = "reset"
                           \/ (startRetry = 0 /\ nextDelayCalls = 0
                               /\ resetCalls = 0)) =>
            /\ delay' = Min(reconnect_strategy.initial_delay,
                            reconnect_strategy.max_delay)
            /\ lastCall'.ret = delay'
            /\ reconnect_strategy'.current_retry = 1]_vars

\* C17 witness: two growing delays, a reset, and the initial delay again.
C17_Witness ==
    /\ lastCall.op = "next_delay"
    /\ startRetry = 0
    /\ resetCalls = 1
    /\ nextDelayCalls = 3
    /\ reconnect_strategy.current_retry = 1
    /\ reconnect_strategy.initial_delay * 2 <= reconnect_strategy.max_delay
    /\ delay = reconnect_strategy.initial_delay

\* C18: no call changes the policy, should_retry changes nothing, reset
\* changes only the counter, and every next_delay call adds exactly one to
\* the counter.
C18_PolicyImmutable ==
    [][/\ Policy(reconnect_strategy') = Policy(reconnect_strategy)
       /\ (~IsNextDelay /\ ~IsReset /\ pc' = pc =>
                reconnect_strategy' = reconnect_strategy)
       /\ (IsNextDelay \/ pc' # pc =>
                /\ reconnect_strategy.current_retry # U32Max
                /\ reconnect_strategy'.current_retry
                       = reconnect_strategy.current_retry + 1)]_vars

\* C19: no call panics and no increment of the counter overflows.
C19_NoFailureMode ==
    /\ pc # "panicked"
    /\ ~(lastCall.op = "next_delay" /\ reconnect_strategy.current_retry = 0)


----------------------------------------------------------------------------
(* Claims about PriceState *)

\* get_spread as the claim words it, for the map m at instant t.
C7_Expected(m, maxAge, t, ex1, ex2, pair) ==
    LET e1 == m[<<ex1, pair>>]
        e2 == m[<<ex2, pair>>]
    IN  IF ~e1.some \/ ~e2.some THEN None
        ELSE IF t - e1.val.timestamp > maxAge \/ t - e2.val.timestamp > maxAge
        THEN None
        ELSE IF 2 * Abs(e1.val.timestamp - e2.val.timestamp) > maxAge
        THEN None
        ELSE Some(Abs(mid_price(e2.val.price) - mid_price(e1.val.price)))

\* Task t has returned from a get_spread call that ran at the present instant
\* on entries the map still holds.
C7_AtOneInstant(t) ==
    /\ tpc[t] = "ret"
    /\ tloc[t].op = "get_spread"
    /\ tloc[t].start = now
    /\ prices[<<tloc[t].ex1, tloc[t].pair>>] = tloc[t].price1
    /\ (tloc[t].price1.some =>
            prices[<<tloc[t].ex2, tloc[t].pair>>] = tloc[t].price2)

\* C7: get_spread returns None when an entry is absent, when an age exceeds
\* max_age or when the receipt instants differ by more than max_age/2, and
\* Some(|mid2 - mid1|) in every other case, the boundaries included.
C7_GetSpread ==
    \A t \in Tasks :
        C7_AtOneInstant(t) =>
            tret[t] = C7_Expected(prices, max_age, now, tloc[t].ex1,
                                  tloc[t].ex2, tloc[t].pair)

\* C7 witness: Some(2.00) is returned with one age equal to max_age and the
\* gap equal to max_age/2.
C7_Witness ==
    \E t \in Tasks :
        /\ C7_AtOneInstant(t)
        /\ tret[t].some
        /\ tret[t].val = 200
        /\ age(tloc[t].price1.val, now) = max_age
        /\ 2 * (tloc[t].price2.val.timestamp - tloc[t].price1.val.timestamp)
               = max_age

\* C8: when update_price completes, get_price of its key yields its price and
\* sequence with the timestamp taken during the call, whatever was stored.
C8_UpdateIsUpsert ==
    [][\A t \in Tasks :
          tpc[t] = "update_insert" /\ tpc'[t] = "ret" =>
              LET got == get_price(prices', tloc[t].key) IN
              /\ got.some
              /\ got.val.price = tloc[t].price
              /\ got.val.sequence = tloc[t].sequence
              /\ got.val.timestamp >= tloc[t].start
              /\ got.val.timestamp <= now']_vars

\* C8 witness: an update with a lower sequence replaced a stored record with
\* a higher one.
C8_Witness ==
    \E t1 \in Tasks, t2 \in Tasks :
        /\ tpc[t1] = "ret" /\ tloc[t1].op = "update_price"
        /\ tpc[t2] = "ret" /\ tloc[t2].op = "update_price"
        /\ tloc[t1].key = tloc[t2].key
        /\ tloc[t1].sequence > tloc[t2].sequence
        /\ tloc[t1].start < tloc[t2].start
        /\ prices[tloc[t2].key] = Some(tloc[t2].price_data)

\* C9: once the N writers have each finished one update_price on pairwise
\* distinct keys, get_all_prices returns exactly these N keys, each with the
\* record its writer built.
C9_NoLostWrites ==
    tpc[0] = "ret" =>
        /\ \A w \in Writers : tret[0][tloc[w].key] = Some(tloc[w].price_data)
        /\ Cardinality({k \in Keys : tret[0][k].some}) = NumWriters

\* C9 witness: get_all_prices has returned after N writers that built their
\* records at different instants.
C9_Witness ==
    /\ tpc[0] = "ret"
    /\ \A w \in Writers : tloc[w].op = "update_price" /\ tpc[w] = "ret"
    /\ \E w1 \in Writers, w2 \in Writers : tloc[w1].start < tloc[w2].start

\* A record made of the price, sequence and timestamp of one update_price call.
C10_FromOneUpdate(key, entry) ==
    \E u \in Updates, ts \in 0..now :
        entry = PriceData_new(Price(key[2], u[1], u[2]), u[3], ts)

\* C10: an entry changes only by being replaced as a whole with the record of
\* the update_price call inserting it, get_price and get_all_prices return
\* what the map holds at one instant, and so every record a reader holds
\* comes from one update_price call.
C10_AtomicReplace ==
    /\ [][\A k \in Keys :
            prices'[k] # prices[k] =>
                \E t \in Tasks :
                    /\ tpc[t] = "update_insert" /\ tpc'[t] = "ret"
                    /\ tloc[t].key = k
                    /\ prices'[k] = Some(PriceData_new(tloc[t].price,
                                             tloc[t].sequence, tloc[t].start))]_vars
    /\ [][\A t \in Tasks :
            (/\ calls' = calls + 1
             /\ tloc'[t].op \in {"get_price", "get_all_prices"}
             /\ tloc'[t].call = calls') =>
                /\ (tloc'[t].op = "get_price" => tret'[t] = prices[tloc'[t].key])
                /\ (tloc'[t].op = "get_all_prices" =>
                        \A k \in Keys : tret'[t][k] = prices[k])]_vars
    /\ [](\A t \in Tasks, k \in Keys :
            /\ (prices[k].some => C10_FromOneUpdate(k, prices[k].val))
            /\ (tpc[t] = "ret" /\ tloc[t].op = "get_price" /\ tloc[t].key = k
                    /\ tret[t].some => C10_FromOneUpdate(k, tret[t].val))
            /\ (tpc[t] = "ret" /\ tloc[t].op = "get_all_prices" /\ tret[t][k].some
                    => C10_FromOneUpdate(k, tret[t][k].val)))

\* C10 witness: a reader got a record while another task was between building
\* and inserting a different record for the same key.
C10_Witness ==
    \E r \in Tasks, w \in Tasks :
        /\ tpc[r] = "ret" /\ tloc[r].op = "get_price"
        /\ tret[r].some
        /\ tpc[w] = "update_insert"
        /\ tloc[w].key = tloc[r].key
        /\ tret[r].val.sequence # tloc[w].sequence
        /\ tret[r] = prices[tloc[r].key]

\* Task t takes a step.
Moved(t) == tpc'[t] # tpc[t] \/ tloc'[t] # tloc[t]

\* Task t enters a call of op in this step.
Enters(t, op) ==
    /\ calls' = calls + 1
    /\ tloc'[t].op = op
    /\ tloc'[t].call = calls'

\* C11: remove_stale_prices visits every entry the map holds when it takes
\* the lock, deletes the visited entry exactly when its age exceeds max_age
\* at that instant, changes no other entry, lets nobody else change the map
\* meanwhile, and returns the number of entries deleted, which is the size
\* before minus the size after.
C11_RemoveStalePrices ==
    [][\A t \in Tasks :
          /\ Enters(t, "remove_stale_prices") =>
                /\ prices' = prices
                /\ tloc'[t].todo = present(prices)
                /\ tloc'[t].keys = present(prices)
                /\ (present(prices) = {} => tpc'[t] = "ret" /\ tret'[t] = 0)
                /\ (present(prices) # {} => tpc'[t] = "retain")
          /\ tpc[t] = "retain" /\ ~Moved(t) => prices' = prices
          /\ tpc[t] = "retain" /\ Moved(t) =>
                \E key \in tloc[t].todo :
                    /\ tloc'[t].todo = tloc[t].todo \ {key}
                    /\ prices'[key] =
                          IF now - prices[key].val.timestamp > max_age
                          THEN None ELSE prices[key]
                    /\ \A k \in Keys \ {key} : prices'[k] = prices[k]
                    /\ tpc'[t] = IF tloc'[t].todo = {} THEN "ret" ELSE "retain"
                    /\ (tpc'[t] = "ret" =>
                          /\ tret'[t] = Cardinality(tloc[t].keys \ present(prices'))
                          /\ tret'[t] = Cardinality(tloc[t].keys)
                                            - Cardinality(present(prices')))]_vars

\* C11 witness: a sweep over two entries deleted one and kept the other,
\* whose age is exactly max_age.
C11_Witness ==
    \E t \in Tasks, k \in Keys :
        /\ tpc[t] = "ret"
        /\ tloc[t].op = "remove_stale_prices"
        /\ Cardinality(tloc[t].keys) = 2
        /\ tret[t] = 1
        /\ k \in tloc[t].keys
        /\ prices[k].some
        /\ age(prices[k].val, now) = max_age

\* C12: is_stale returns false at once for an absent key; for a present one
\* it returns whether the age of the entry it looked up exceeds max_age.
C12_IsStale ==
    [][\A t \in Tasks :
          /\ Enters(t, "is_stale") =>
                IF prices[tloc'[t].key].some
                THEN /\ tpc'[t] = "stale_age"
                     /\ tloc'[t].price_data = prices[tloc'[t].key]
                ELSE /\ tpc'[t] = "ret"
                     /\ tret'[t] = FALSE
          /\ tpc[t] = "stale_age" /\ Moved(t) =>
                /\ tpc'[t] = "ret"
                /\ tret'[t] = (now - tloc[t].price_data.val.timestamp > max_age)]_vars

\* C12 witness: is_stale returned true for an entry one nanosecond older
\* than max_age.
C12_Witness ==
    \E t \in Tasks :
        /\ tpc[t] = "ret"
        /\ tloc[t].op = "is_stale"
        /\ tret[t] = TRUE
        /\ prices[tloc[t].key] = tloc[t].price_data
        /\ age(tloc[t].price_data.val, now) = max_age + 1

ReadOps == {"get_price", "is_stale", "get_spread", "get_spread_percentage",
            "get_all_prices"}

\* C13: a step of a read operation leaves the map unchanged, get_price
\* returns the stored entry without looking at its age, an entry goes away
\* only in a step of remove_stale_prices or clear, and clear empties the map.
C13_ReadsNeverExpire ==
    /\ [][\A t \in Tasks :
            Moved(t) /\ tloc'[t].op \in ReadOps => prices' = prices]_vars
    /\ [][\A t \in Tasks :
            Enters(t, "get_price") =>
                tpc'[t] = "ret" /\ tret'[t] = prices[tloc'[t].key]]_vars
    /\ [][\A k \in Keys :
            prices[k].some /\ ~prices'[k].some =>
                \E t \in Tasks :
                    /\ Moved(t)
                    /\ tloc'[t].op \in {"remove_stale_prices", "clear"}]_vars
    /\ [][\A t \in Tasks :
            Enters(t, "clear") => \A k \in Keys : ~prices'[k].some]_vars

\* C13 witness: get_price returned an entry older than max_age, and the map
\* still holds it.
C13_Witness ==
    \E t \in Tasks :
        /\ tpc[t] = "ret"
        /\ tloc[t].op = "get_price"
        /\ tret[t].some
        /\ age(tret[t].val, now) > max_age
        /\ prices[tloc[t].key] = tret[t]

\* get_spread_percentage as the claim words it, for the map m at instant t,
\* in units of 1/QuotientScale.
C14_Expected(m, maxAge, t, ex1, ex2, pair) ==
    LET spread == C7_Expected(m, maxAge, t, ex1, ex2, pair)
        p1 == m[<<ex1, pair>>].val.price
        mid1 == mid_price(p1)
    IN  IF ~spread.some THEN None
        ELSE IF mid1 = 0 THEN None
        ELSE Some(((spread.val * QuotientScale) \div mid1) * 100)

\* Task t has returned from a get_spread_percentage call that ran at the
\* present instant on entries the map still holds.
C14_AtOneInstant(t) ==
    /\ tpc[t] = "ret"
    /\ tloc[t].op = "get_spread_percentage"
    /\ tloc[t].start = now
    /\ prices[<<tloc[t].ex1, tloc[t].pair>>] = tloc[t].price1
    /\ (tloc[t].price1.some =>
            prices[<<tloc[t].ex2, tloc[t].pair>>] = tloc[t].price2)
    /\ (tloc[t].spread.some => tloc[t].again = tloc[t].price1)

\* C14: get_spread_percentage returns None when get_spread does and when the
\* mid-price of ex1 is zero, and otherwise (|mid2 - mid1| / mid1) * 100.
C14_GetSpreadPercentage ==
    \A t \in Tasks :
        C14_AtOneInstant(t) =>
            tret[t] = C14_Expected(prices, max_age, now, tloc[t].ex1,
                                   tloc[t].ex2, tloc[t].pair)

\* C14 witness: mid-prices 100 on ex1 and 125 on ex2 gave 25 percent.
C14_Witness ==
    \E t \in Tasks :
        /\ C14_AtOneInstant(t)
        /\ tret[t] = Some(25 * QuotientScale)
        /\ mid_price(tloc[t].price1.val.price) = 10000
        /\ mid_price(tloc[t].price2.val.price) = 12500

----------------------------------------------------------------------------
(* Claims about the broadcast fan-out *)

\* Values sent that subscriber s has not read yet.
Unread(s) == chan.pos - rx[s].next

\* C21: a text frame that parses is handed to send exactly once, and a send
\* that finds no subscriber stores nothing and leaves the read loop running;
\* a subscriber starts at the value sent next after it subscribed, and while
\* it has not lagged each of its receives returns the value that follows the
\* one it read before, so it gets every value sent since it subscribed, in
\* send order.
C21_FanOut ==
    /\ [](\A s \in Subscribers :
            rx[s].alive =>
              /\ rx[s].next <= chan.pos
              /\ (0 < Unread(s) /\ Unread(s) <= chan.len) =>
                    recv(chan, rx[s].next) =
                      [next |-> rx[s].next + 1,
                       ret |-> RecvOk(sent[rx[s].next + 1])])
    /\ [][/\ sent' = IF lastParse' # lastParse /\ lastParse'.ok
                     THEN Append(sent, lastParse'.val)
                     ELSE sent
          /\ (sent' # sent) =>
                /\ ~chan'.closed
                /\ IF \E s \in Subscribers : rx[s].alive
                   THEN /\ chan'.pos = chan.pos + 1
                        /\ chan'.buffer[chan.pos % chan.len] =
                              [pos |-> chan.pos, val |-> lastParse'.val]
                   ELSE chan' = chan
          /\ \A s \in Subscribers :
                /\ (~rx[s].alive /\ rx'[s].alive) => rx'[s].next = chan.pos
                /\ (rx[s].alive /\ rx'[s].alive /\ rx'[s] # rx[s]
                    /\ rx'[s].last.kind = "Ok") =>
                      /\ rx'[s].next = rx[s].next + 1
                      /\ rx'[s].last.price = sent[rx[s].next + 1]]_vars

\* C21 witness: subscriber 2 subscribed after the first value was sent; both
\* subscribers have received the second value, and subscriber 2 nothing else.
C21_Witness ==
    /\ Len(sent) = 2
    /\ rx[1].alive /\ rx[1].next = 2 /\ rx[1].last = RecvOk(sent[2])
    /\ rx[2].alive /\ rx[2].next = 2 /\ rx[2].last = RecvOk(sent[2])
    /\ chan.rx_cnt = 2

\* C22 as claimed: a subscriber with more unread values than the capacity
\* passed to broadcast::channel (100) has lost the oldest of them, so its next
\* receive reports Lagged.
C22_LagBeyondCapacity ==
    \A s \in Subscribers :
        (rx[s].alive /\ Unread(s) > BroadcastCapacity) =>
            recv(chan, rx[s].next).ret.kind = "Lagged"

\* C22, amended: the ring holds next_power_of_two(100) = 128 values.  A send
\* that finds a subscriber stores its value at once however far behind any
\* subscriber is.  A subscriber with at most 128 unread values has lost none;
\* with more, its next receive reports Lagged with the number of values
\* beyond the newest 128, and moves it to the oldest of those 128, from where
\* it receives in send order.  A receive changes neither the channel nor any
\* other subscriber.
C22_LagBeyondBuffer ==
    /\ [](\A s \in Subscribers :
            rx[s].alive =>
              LET retained == next_power_of_two(BroadcastCapacity)
                  r == recv(chan, rx[s].next) IN
              IF Unread(s) > retained
              THEN /\ r.ret = Lagged(Unread(s) - retained)
                   /\ r.next = chan.pos - retained
                   /\ recv(chan, r.next) =
                        [next |-> r.next + 1, ret |-> RecvOk(sent[r.next + 1])]
              ELSE r.ret.kind # "Lagged")
    /\ [][/\ (sent' # sent /\ \E s \in Subscribers : rx[s].alive) =>
                chan'.pos = chan.pos + 1
          /\ \A s \in Subscribers :
                (rx[s].alive /\ rx'[s].alive /\ rx'[s] # rx[s]) =>
                   /\ chan' = chan
                   /\ \A t \in Subscribers \ {s} : rx'[t] = rx[t]]_vars

\* C22 witness: 130 values were sent; subscriber 1 read none of them, and its
\* receive reported 2 values skipped and left it at the third; subscriber 2
\* has just received the newest value.
C22_Witness ==
    /\ chan.pos = 130
    /\ rx[1].alive /\ rx[1].last = Lagged(2) /\ rx[1].next = 2
    /\ rx[2].alive /\ rx[2].last = RecvOk(sent[130])

----------------------------------------------------------------------------
(* Claims about the exchange parsers *)

\* Some message has been parsed.
Parsed == origin.shape # "none"

\* The message is a ticker of a supported shape with nothing wrong that a
\* parser has to reject (a missing or unreadable time is replaced by now).
WellFormed(o) == o.shape \in Shapes /\ o.role \in {"none", "time"}

\* The message is one that parse has to answer with a failure.
MustFail(o) ==
    \/ o.shape = "not_json"
    \/ o.role = "discriminant" /\ o.defect \in {"absent", "wrong"}
    \/ o.role \in {"symbol"} \cup NumberRoles /\ o.defect = "absent"
    \/ o.role \in NumberRoles /\ o.defect = "not_decimal"

SubscriptionConfirmation ==
    ParseError("Subscription confirmation message (not a ticker)")

\* C28: parse fails for a message that is not JSON, has a wrong or absent
\* discriminant, lacks the symbol, last, bid, ask or volume, or carries a
\* numeric string that is no decimal; Coinbase's error notification and
\* subscription confirmation fail with reasons of their own.
C28_ParseFailures ==
    Parsed =>
        /\ MustFail(origin) => ~parseRet.ok
        /\ origin.shape = "coinbase_error" =>
              ~parseRet.ok /\ parseRet.err.kind = "ExchangeError"
        /\ origin.shape = "coinbase_subscriptions" =>
              parseRet = SubscriptionConfirmation
        /\ (~parseRet.ok /\ origin.shape \notin {"coinbase_error",
                                                "coinbase_subscriptions"}) =>
              /\ parseRet.err.kind = "ParseError"
              /\ parseRet # SubscriptionConfirmation

\* C29: a well-formed ticker of each shape parses to a Price with the
\* canonical pair of its symbol and exactly the bid, ask and last written
\* in its strings.
C29_RoundTrip ==
    (Parsed /\ WellFormed(origin)) =>
        /\ parseRet.ok
        /\ parseRet.val.pair = canonical_pair(origin.market)
        /\ decimal_eq(parseRet.val.bid, origin.values.bid)
        /\ decimal_eq(parseRet.val.ask, origin.values.ask)
        /\ decimal_eq(parseRet.val.last, origin.values.last)

----------------------------------------------------------------------------
(* Claims about the exchange adapters *)

\* The task whose handle the adapter holds, if any, is in one of the states.
HandleTaskIn(states) ==
    ws_manager_handle.some /\ feeds[ws_manager_handle.val].task \in states

\* C24: a feed task that met a network failure tries again as long as its
\* ReconnectionStrategy permits: it has ended on an error only with a
\* strategy that allows no further retry.
C24_FailureIsRetried ==
    \A g \in Generations :
        (feeds[g].task = "ended" /\ feeds[g].ended_by = "error") =>
            /\ feeds[g].strategy.some
            /\ ~should_retry(feeds[g].strategy.val)

\* C25: every price in the latest-price map comes from the subscription
\* whose task handle the adapter holds; after disconnect() (alone or as the
\* first step of subscribe_ticker) nothing of an earlier connection is
\* written any more.
C25_CleanTeardown ==
    \A key \in DOMAIN latest_prices :
        ws_manager_handle = Some(generation_of(latest_prices[key]))

\* C26: the first-price wait makes at most 100 polls 100 ms apart, returns
\* Ok as soon as a poll finds the pair, and returns Ok when the 100th poll
\* does not find it.
C26_BoundedWait ==
    /\ [](caller.pc = "polling" =>
            /\ caller.attempts < 100
            /\ caller.waited = 100 * caller.attempts
            /\ caller.ret = NoResult)
    /\ [][caller.pc = "polling" /\ caller' # caller =>
            IF contains_key(latest_prices, SubscribedPair)
            THEN caller'.pc = "idle" /\ caller'.ret = Ok(Unit)
                 /\ ~caller'.timed_out
            ELSE IF caller.attempts = 99
            THEN caller'.pc = "idle" /\ caller'.ret = Ok(Unit)
                 /\ caller'.timed_out
            ELSE /\ caller'.pc = "polling"
                 /\ caller'.attempts = caller.attempts + 1
                 /\ caller'.waited = caller.waited + 100]_vars

\* The wait of the second subscription ran out of polls and returned Ok.
C26_Witness ==
    /\ caller.pc = "idle" /\ caller.op = "subscribe_ticker" /\ caller.gen = 2
    /\ caller.timed_out /\ caller.ret = Ok(Unit)
    /\ ~contains_key(latest_prices, SubscribedPair)

\* The subscribe message the claim describes, for the subscribed pair.
ExpectedSubscribe ==
    JObj(("type" :> JStr("subscribe"))
         @@ ("product_ids" :>
                JArr(<<JStr([i \in DOMAIN SubscribedPair |->
                               IF SubscribedPair[i] = "/" THEN "-"
                               ELSE SubscribedPair[i]])>>))
         @@ ("channels" :> JArr(<<JStr("ticker")>>)))

\* C27: over every socket the Coinbase adapter opens, the subscribe message
\* is sent once and before any frame is read; when sending it fails,
\* subscribe_ticker returns a network error and no reader task is started.
C27_SubscribeFirst ==
    /\ [](exchange = "coinbase" =>
            \A g \in Generations :
                /\ (feeds[g].reads > 0 \/ feeds[g].task \in {"connected", "inserting"})
                      => feeds[g].outbox = <<ExpectedSubscribe>>
                /\ feeds[g].outbox \in {<<>>, <<ExpectedSubscribe>>}
                /\ feeds[g].task = "unsubscribed" =>
                      /\ feeds[g].reads = 0 /\ feeds[g].outbox = <<>>
                      /\ (caller.gen = g /\ caller.op = "subscribe_ticker") =>
                            /\ caller.pc = "idle"
                            /\ caller.ret = Err(NetworkError(
                                   "Failed to send subscription message")))
    /\ [][\A g \in Generations :
            feeds[g].task = "unsubscribed" => feeds'[g].task = "unsubscribed"]_vars

\* The first subscription's subscribe message could not be sent; the second
\* one's was sent and a frame has been read after it.
C27_Witness ==
    /\ exchange = "coinbase"
    /\ feeds[1].task = "unsubscribed"
    /\ feeds[2].task = "connected" /\ feeds[2].reads = 1
    /\ feeds[2].outbox = <<ExpectedSubscribe>>

\* C30: is_connected() is false before any subscription, after disconnect()
\* has returned and once the held task has ended, and it is true only while
\* the held task has a working connection.
C30_IsConnected ==
    /\ caller.op = "new" => ~is_connected
    /\ caller.op = "disconnect" => ~is_connected
    /\ HandleTaskIn({"ended"}) => ~is_connected
    /\ is_connected => HandleTaskIn({"connected", "inserting"})

----------------------------------------------------------------------------
(* Claims about the retry budget of WebSocketManager::run *)

\* No select! arm was taken and no connection is open: every connect_async
\* made so far failed.
EveryAttemptFailed == events = 0 /\ pc # "connected"

\* C31: next_delay() is called only in the step that follows a should_retry()
\* that returned true, once per failed cycle; with a finite max_retries N
\* the attempt counter never exceeds N; and while every attempt fails the
\* k-th sleep lasts min(initial_delay * 2^(k-1), max_delay) and run returns
\* after exactly N+1 connection attempts and N sleeps.
C31_RetryBudget ==
    /\ [](/\ nextDelayCalls <= shouldRetryCalls
          /\ reconnect_strategy.max_retries.some =>
                /\ reconnect_strategy.current_retry >= 0
                /\ reconnect_strategy.current_retry
                      <= reconnect_strategy.max_retries.val
          /\ (EveryAttemptFailed /\ pc = "sleeping") =>
                /\ nextDelayCalls >= 1
                /\ attempts = nextDelayCalls
                /\ delay = Min(reconnect_strategy.initial_delay
                                  * powi(2, nextDelayCalls - 1),
                               reconnect_strategy.max_delay)
          /\ (EveryAttemptFailed /\ pc = "returned"
                 /\ reconnect_strategy.max_retries.some) =>
                /\ attempts = reconnect_strategy.max_retries.val + 1
                /\ nextDelayCalls = reconnect_strategy.max_retries.val
                /\ result = Err(NetworkError("Failed to connect")))
    /\ [][nextDelayCalls' # nextDelayCalls =>
            /\ pc = "failed"
            /\ should_retry(reconnect_strategy)
            /\ shouldRetryCalls' = shouldRetryCalls + 1
            /\ nextDelayCalls' = nextDelayCalls + 1
            /\ reconnect_strategy'.current_retry
                  = reconnect_strategy.current_retry + 1]_vars

\* C31 witness: max_retries is 2, all three attempts failed, and the second
\* of the two sleeps lasted min(1 * 2, 3) = 2 seconds.
C31_Witness ==
    /\ EveryAttemptFailed
    /\ pc = "returned"
    /\ reconnect_strategy.max_retries = Some(2)
    /\ reconnect_strategy.initial_delay = 1
    /\ reconnect_strategy.max_delay = 3
    /\ attempts = 3
    /\ nextDelayCalls = 2
    /\ delay = 2

\* The budget of retries that is left follows the streak of failed cycles:
\* run returns Err exactly at the failure that makes max_retries + 1 failed
\* cycles in a row, and a connection that is established ends the streak.
BudgetFollowsStreak ==
    /\ [](reconnect_strategy.max_retries.some =>
            /\ (pc = "returned" /\ ~result.ok) =>
                   failedInARow = reconnect_strategy.max_retries.val + 1
            /\ pc = "sleeping" =>
                   failedInARow \in 1..reconnect_strategy.max_retries.val
            /\ pc = "connected" =>
                   failedInARow = 0 /\ reconnect_strategy.current_retry = 0
            /\ reconnect_strategy.current_retry
                  = IF pc = "failed" \/ (pc = "returned" /\ ~result.ok)
                    THEN failedInARow - 1 ELSE failedInARow)
    /\ [][(reconnect_strategy.max_retries.some /\ pc = "failed") =>
            /\ pc' = "returned"
                  <=> failedInARow = reconnect_strategy.max_retries.val + 1
            /\ pc' = "sleeping"
                  <=> failedInARow <= reconnect_strategy.max_retries.val]_vars

\* C32 as stated: with any finite max_retries N the budget applies per
\* streak of failed cycles, and the failure of a cycle that had established
\* a connection is always followed by a reconnection.
C32_AlwaysReconnects ==
    /\ BudgetFollowsStreak
    /\ [][(reconnect_strategy.max_retries.some /\ pc = "failed" /\ established)
            => pc' = "sleeping"]_vars

\* C32, amended: with a finite max_retries N the budget applies per streak
\* of failed cycles, and for N >= 1 the failure of a cycle that had
\* established a connection is always followed by a reconnection.
C32_BudgetPerStreak ==
    /\ BudgetFollowsStreak
    /\ [][(/\ reconnect_strategy.max_retries.some
            /\ reconnect_strategy.max_retries.val >= 1
            /\ pc = "failed"
            /\ established)
            => pc' = "sleeping"]_vars

\* C32 witness: with max_retries = 1 a fourth connection is open after three
\* failed cycles, more than the two that may fail in a row.
C32_Witness ==
    /\ reconnect_strategy.max_retries = Some(1)
    /\ pc = "connected"
    /\ attempts = 4
    /\ nextDelayCalls = 3
    /\ shouldRetryCalls = 3

----------------------------------------------------------------------------
(* Claims about the channel across reconnections *)

\* C33: the channel made by new serves every connection: the first Receiver
\* stays subscribed whatever the manager does, every value handed to send is
\* stored behind those of earlier connections, the Receiver is handed the
\* values in that order whatever connection they came from, and the channel
\* is closed, and reported Closed, only when the manager has been dropped.
C33_OneChannelForAllConnections ==
    /\ [](/\ rx[1].alive /\ chan.rx_cnt = 1
          /\ sent = broadcast
          /\ chan.pos = Len(sent)
          /\ Len(sentOn) = Len(sent)
          /\ \A i, j \in 1..Len(sentOn) : i < j => sentOn[i] <= sentOn[j]
          /\ rx[1].next <= chan.pos
          /\ rx[1].next < chan.pos =>
                recv(chan, rx[1].next) =
                  [next |-> rx[1].next + 1, ret |-> RecvOk(sent[rx[1].next + 1])]
          /\ chan.closed <=> pc = "dropped"
          /\ rx[1].last.kind = "Closed" => pc = "dropped" /\ rx[1].next = chan.pos
          /\ rx[1].last.kind # "Lagged")
    /\ [][rx'[1] # rx[1] =>
            IF rx[1].next < Len(sent)
            THEN /\ rx'[1].last = RecvOk(sent[rx[1].next + 1])
                 /\ rx'[1].next = rx[1].next + 1
            ELSE /\ rx'[1].last = Closed
                 /\ rx'[1].next = rx[1].next]_vars

\* C33 witness: the Receiver returned by new has just received a value read
\* on the second connection, after one read on the first, which failed.
C33_Witness ==
    /\ Len(sent) = 2
    /\ sentOn = <<1, 2>>
    /\ shouldRetryCalls = 1
    /\ rx[1].next = 2
    /\ rx[1].last = RecvOk(sent[2])
    /\ pc = "connected"

----------------------------------------------------------------------------
(* Claims about PriceState under concurrent callers *)

\* The call in progress or last made by task t is a spread computation.
SpreadCall(t) == tloc[t].op \in {"get_spread", "get_spread_percentage"}

\* C34: get_spread and get_spread_percentage work on one consistent pair of
\* records.  Two records of one key are in the map at a common instant only
\* if they are one record, so a call with ex1 = ex2 compares a record with
\* itself; and the record whose mid-price get_spread_percentage divides by
\* is the ex1 record the spread was computed from.
C34_ConsistentPair ==
    \A t \in Tasks :
        SpreadCall(t) =>
            /\ (tloc[t].ex1 = tloc[t].ex2 /\ tloc[t].price2.some) =>
                    tloc[t].price2 = tloc[t].price1
            /\ tloc[t].again.some => tloc[t].again = tloc[t].price1

\* C35: while a sweep holds the write lock the map changes only by the sweep
\* dropping an entry that is stale at that moment; an insert never falls
\* inside a sweep and stores its record; and once an update_price and a sweep
\* that ran concurrently have both returned, the key holds the updated
\* record unless the sweep found that record stale.
C35_SweepIsAtomic ==
    /\ [](\A a \in Tasks, b \in Tasks :
            (/\ calls = 2
             /\ tpc[a] = "ret" /\ tloc[a].op = "update_price"
             /\ tpc[b] = "ret" /\ tloc[b].op = "remove_stale_prices") =>
                \/ prices[tloc[a].key] = Some(tloc[a].price_data)
                \/ /\ prices[tloc[a].key] = None
                   /\ is_stale(tloc[a].price_data, max_age, now))
    /\ [][/\ \A key \in Keys :
               (WriteLocked /\ prices'[key] # prices[key]) =>
                   /\ prices[key].some
                   /\ is_stale(prices[key].val, max_age, now)
                   /\ prices'[key] = None
          /\ \A t \in Tasks :
               (tpc[t] = "update_insert" /\ tpc'[t] = "ret") =>
                   /\ ~WriteLocked
                   /\ prices'[tloc[t].key] = Some(tloc[t].price_data)]_vars

\* C35 witness: a sweep holds the lock and is about to examine a stale
\* entry while an update_price of the same key has built its record and
\* waits for the lock.
C35_Witness ==
    /\ tpc[1] = "update_insert"
    /\ tpc[2] = "retain"
    /\ tloc[1].key \in tloc[2].todo
    /\ is_stale(prices[tloc[1].key].val, max_age, now)

\* Tasks a and b have returned from the same spread operation on the same
\* pair with the exchange arguments exchanged.
Mirrored(a, b) ==
    /\ tpc[a] = "ret" /\ tpc[b] = "ret"
    /\ SpreadCall(a)
    /\ tloc[b].op = tloc[a].op
    /\ tloc[b].pair = tloc[a].pair
    /\ tloc[b].ex1 = tloc[a].ex2
    /\ tloc[b].ex2 = tloc[a].ex1

\* C36: at one instant get_spread(ex1, ex2, pair) and get_spread(ex2, ex1,
\* pair) are both None or both Some of the same value, also as the spread
\* inside get_spread_percentage; two percentages that are both Some are
\* equal exactly when the two mid-prices are, each being the spread divided
\* by the mid-price of its own first argument.
C36_SpreadSymmetry ==
    \A a \in Tasks, b \in Tasks :
        Mirrored(a, b) =>
            IF tloc[a].op = "get_spread"
            THEN tret[a] = tret[b]
            ELSE /\ (tret[a].some /\ tret[b].some) =>
                       /\ tloc[a].spread = tloc[b].spread
                       /\ tret[a] = tret[b]
                             <=> mid_price(tloc[a].price1.val.price)
                                   = mid_price(tloc[b].price1.val.price)
                 /\ (tret[a].some /\ ~tret[b].some) =>
                       mid_price(tloc[b].price1.val.price) = 0

\* C36 witness: the percentages of Binance against Coinbase and of Coinbase
\* against Binance come from the same spread of 25 and differ (25% of the
\* mid-price 100, 20% of the mid-price 125).
C36_Witness ==
    /\ Mirrored(1, 2)
    /\ tloc[1].op = "get_spread_percentage"
    /\ tloc[1].ex1 = "Binance" /\ tloc[1].ex2 = "Coinbase"
    /\ tloc[1].spread = Some(2500) /\ tloc[2].spread = Some(2500)
    /\ tret[1] = Some(250000)
    /\ tret[2] = Some(200000)

\* C37: update_price(e, p, ..) leaves the map alone while it builds its
\* record, then stores the record under (e, p) and leaves the entry of every
\* other key as it is, price, receipt timestamp and sequence; max_age never
\* changes.
C37_OnlyItsKey ==
    [][/\ max_age' = max_age
       /\ \A t \in DOMAIN tpc :
            /\ (tpc'[t] = "update_insert" /\ tpc[t] # "update_insert") =>
                   prices' = prices
            /\ (tpc[t] = "update_insert" /\ tpc'[t] = "ret") =>
                   /\ prices'[tloc[t].key] = Some(tloc[t].price_data)
                   /\ \A k \in Keys \ {tloc[t].key} : prices'[k] = prices[k]]_vars

\* C37 witness: SOL/USDC on Coinbase has been replaced at a later instant
\* while SOL/USDC on Binance and BTC/USDT on Coinbase hold the records they
\* held from the start.
C37_Witness ==
    /\ tpc[1] = "ret"
    /\ tloc[1].key = <<"Coinbase", "SOL/USDC">>
    /\ prices[<<"Coinbase", "SOL/USDC">>] = Some(tloc[1].price_data)
    /\ tloc[1].price_data.timestamp > 0
    /\ prices[<<"Binance", "SOL/USDC">>]
          = Some(HeldFromStart(<<"Binance", "SOL/USDC">>))
    /\ prices[<<"Coinbase", "BTC/USDT">>]
          = Some(HeldFromStart(<<"Coinbase", "BTC/USDT">>))
    /\ tpc[2] = "update_insert"
    /\ tloc[2].key = <<"Binance", "SOL/USDC">>

----------------------------------------------------------------------------
(* Claims about Binance pair naming *)

\* The pair a well-formed Binance ticker of the market is about comes back
\* from pair_to_symbol and symbol_to_pair unchanged.
RoundTrips(market) ==
    symbol_to_pair(pair_to_symbol(canonical_pair(market))) = canonical_pair(market)

\* A ticker of the stream subscribed for the market's pair is parsed to a
\* Price filed under symbol_to_pair(pair_to_symbol(pair)).
FiledUnderRoundTrip ==
    /\ parseRet.ok
    /\ parseRet.val.pair
          = symbol_to_pair(pair_to_symbol(canonical_pair(origin.market)))

\* C38 as stated: a ticker of the stream subscribed for a canonical pair is
\* filed under symbol_to_pair(pair_to_symbol(pair)); that is the pair again
\* when base and quote have equal length, and only then.
C38_SymbolRoundTrip ==
    (Parsed /\ origin.shape = "binance" /\ WellFormed(origin)) =>
        /\ FiledUnderRoundTrip
        /\ Len(origin.market.base) = Len(origin.market.quote)
              => RoundTrips(origin.market)
        /\ RoundTrips(origin.market)
              => Len(origin.market.base) = Len(origin.market.quote)

\* C38 amended: a ticker of the stream subscribed for a canonical pair is
\* filed under symbol_to_pair(pair_to_symbol(pair)); that is the pair again
\* exactly when the symbol has at least 6 characters and the quote is as
\* long as the base or one character longer; a shorter symbol is filed under
\* UNKNOWN/symbol.
C38_RoundTripAtMidpoint ==
    (Parsed /\ origin.shape = "binance" /\ WellFormed(origin)) =>
        LET base_len == Len(origin.market.base)
            quote_len == Len(origin.market.quote)
        IN  /\ FiledUnderRoundTrip
            /\ RoundTrips(origin.market)
                  <=> /\ base_len + quote_len >= 6
                      /\ quote_len \in {base_len, base_len + 1}
            /\ (parseRet.ok /\ parseRet.val.pair = canonical_pair(origin.market))
                  <=> /\ base_len + quote_len >= 6
                      /\ quote_len \in {base_len, base_len + 1}
            /\ (parseRet.ok /\ base_len + quote_len < 6) =>
                  parseRet.val.pair
                      = <<"U", "N", "K", "N", "O", "W", "N", "/">>
                        \o origin.market.base \o origin.market.quote

\* C38 witness: a ticker of SOL/USDC, whose quote is one character longer
\* than its base, has been parsed and is filed under SOL/USDC.
C38_Witness ==
    /\ Parsed /\ origin.shape = "binance" /\ WellFormed(origin)
    /\ origin.market = [base |-> <<"S", "O", "L">>, quote |-> <<"U", "S", "D", "C">>]
    /\ Len(origin.market.base) # Len(origin.market.quote)
    /\ parseRet.ok
    /\ parseRet.val.pair = <<"S", "O", "L", "/", "U", "S", "D", "C">>

----------------------------------------------------------------------------
(* Claims about the RateLimiter *)

\* The calls that returned since call i started its window, call i included.
AdmittedInWindowOf(i) ==
    {j \in i..Len(admissions) : \A k \in (i + 1)..j : ~admissions[k].starts}

\* C39: the number of calls of wait_if_needed admitted since the window
\* start never exceeds max_requests: for every call that started a window,
\* at most max_requests calls, that call included, have returned before the
\* next window starts.
C39_AtMostMaxPerWindow ==
    \A i \in 1..Len(admissions) :
        admissions[i].starts =>
            Cardinality(AdmittedInWindowOf(i)) <= max_requests

====
